---- MODULE Spec2Model ----
(***************************************************************************)
(* Smart-Energy-Switching: the stateless allocator, the switching          *)
(* controller (hysteresis and spike cooldown), the battery and the         *)
(* per-step energy-flow reconciliation of the battery drivers.             *)
(*                                                                         *)
(* Arithmetic is exact.  Powers are integers in units of 0.01 kW (ckW).    *)
(* The usable generation pv * (1 - solar_margin) is kept multiplied by     *)
(* 100 (the margin is a whole percentage) and the high-power factor is a   *)
(* number of tenths, so every comparison of the allocator is a comparison  *)
(* of integers.  The battery's energies and the powers it returns are      *)
(* kept over fixed denominators, explained with the battery.               *)
(***************************************************************************)
EXTENDS Integers, Sequences, FiniteSets, TLC

Max(x, y) == IF x >= y THEN x ELSE y
Min(x, y) == IF x <= y THEN x ELSE y

(***************************************************************************)
(* Load: one record per load and step.  high_event_threshold_kw is <<>>    *)
(* for None and <<v>> for the threshold v.                                 *)
(***************************************************************************)
Load(n, p, solar, high, thr) ==
    [name |-> n, power_kw |-> p, can_run_on_solar |-> solar,
     is_high_power |-> high, high_event_threshold_kw |-> thr]

\* The names of a load list.
NamesOf(loads) == {loads[i].name : i \in 1..Len(loads)}

\* A Python dict assignment d[k] = v.
DictSet(d, k, v) == (k :> v) @@ d

\* The empty dict.
EmptyDict == <<>>

(***************************************************************************)
(* allocate_sources_for_step                                               *)
(***************************************************************************)
\* priority_key's first component, recomputed in the greedy walk.
effective_high_power(l, high_power_min_kw) ==
    l.is_high_power \/ l.power_kw >= high_power_min_kw

\* A key order with the larger loads first.
KeyLeqLargestFirst(a, b, high_power_min_kw) ==
    LET ha == IF effective_high_power(a, high_power_min_kw) THEN 1 ELSE 0
        hb == IF effective_high_power(b, high_power_min_kw) THEN 1 ELSE 0
    IN  ha < hb \/ (ha = hb /\ a.power_kw >= b.power_kw)

\* priority_key(a) <= priority_key(b): (bool, power) tuples, False before True.
KeyLeq(a, b, high_power_min_kw) ==
    LET ha == IF effective_high_power(a, high_power_min_kw) THEN 1 ELSE 0
        hb == IF effective_high_power(b, high_power_min_kw) THEN 1 ELSE 0
    IN  ha < hb \/ (ha = hb /\ a.power_kw <= b.power_kw)

\* An insertion that puts x before the elements with a key equal to its own.
RECURSIVE InsertBeforeEqual(_, _, _)
InsertBeforeEqual(x, s, high_power_min_kw) ==
    IF s = <<>> THEN <<x>>
    ELSE IF KeyLeq(x, Head(s), high_power_min_kw)
         THEN <<x>> \o s
         ELSE <<Head(s)>> \o InsertBeforeEqual(x, Tail(s), high_power_min_kw)

\* sorted(): x goes after every element whose key is <= its own (stable).
RECURSIVE InsertStable(_, _, _)
InsertStable(x, s, high_power_min_kw) ==
    IF s = <<>> THEN <<x>>
    ELSE IF KeyLeq(Head(s), x, high_power_min_kw)
         THEN <<Head(s)>> \o InsertStable(x, Tail(s), high_power_min_kw)
         ELSE <<x>> \o s

RECURSIVE SortedStable(_, _)
SortedStable(s, high_power_min_kw) ==
    IF s = <<>> THEN <<>>
    ELSE InsertStable(s[Len(s)],
                      SortedStable(SubSeq(s, 1, Len(s) - 1), high_power_min_kw),
                      high_power_min_kw)

\* Step 1: every load GRID.
RECURSIVE AllGrid(_, _)
AllGrid(allocation, loads) ==
    IF loads = <<>> THEN allocation
    ELSE AllGrid(DictSet(allocation, Head(loads).name, "GRID"), Tail(loads))

\* Step 2: grid-only loads GRID, in input order.
RECURSIVE GridOnlyPass(_, _)
GridOnlyPass(allocation, loads) ==
    IF loads = <<>> THEN allocation
    ELSE GridOnlyPass(IF Head(loads).can_run_on_solar THEN allocation
                      ELSE DictSet(allocation, Head(loads).name, "GRID"),
                      Tail(loads))

\* No filter: every load is taken as solar-eligible.
SolarEligibleAll(loads) == loads

\* Step 2: the solar-eligible loads, in input order.
SolarEligible(loads) == SelectSeq(loads, LAMBDA l : l.can_run_on_solar)

\* A test that only asks for some budget to be left.
FitsSolarAnyBudget(l, rem100, factor10, high_power_min_kw) == rem100 > 0

\* A test that applies no factor to high-power loads.
FitsSolarNoFactor(l, rem100, factor10, high_power_min_kw) ==
    /\ rem100 > 0
    /\ l.power_kw * 100 <= rem100

\* The test of one load in the greedy walk; rem100 is 100 * pv_remaining and
\* factor10 is 10 * high_power_solar_factor.
FitsSolar(l, rem100, factor10, high_power_min_kw) ==
    /\ rem100 > 0
    /\ IF effective_high_power(l, high_power_min_kw)
       THEN l.power_kw * 1000 <= rem100 * factor10
       ELSE l.power_kw * 100 <= rem100

\* A walk that never takes a load's power off the remaining budget.
RECURSIVE GreedyWalkNoDecrement(_, _, _, _, _)
GreedyWalkNoDecrement(allocation, sorted, rem100, factor10, high_power_min_kw) ==
    IF sorted = <<>> THEN allocation
    ELSE LET l == Head(sorted)
         IN  IF FitsSolar(l, rem100, factor10, high_power_min_kw)
             THEN GreedyWalkNoDecrement(DictSet(allocation, l.name, "SOLAR"),
                                        Tail(sorted), rem100, factor10,
                                        high_power_min_kw)
             ELSE GreedyWalkNoDecrement(DictSet(allocation, l.name, "GRID"),
                                        Tail(sorted), rem100, factor10,
                                        high_power_min_kw)

\* Step 4: greedy allocation over the sorted solar-eligible loads.
RECURSIVE GreedyWalk(_, _, _, _, _)
GreedyWalk(allocation, sorted, rem100, factor10, high_power_min_kw) ==
    IF sorted = <<>> THEN allocation
    ELSE LET l == Head(sorted)
         IN  IF FitsSolar(l, rem100, factor10, high_power_min_kw)
             THEN GreedyWalk(DictSet(allocation, l.name, "SOLAR"), Tail(sorted),
                             rem100 - l.power_kw * 100, factor10, high_power_min_kw)
             ELSE GreedyWalk(DictSet(allocation, l.name, "GRID"), Tail(sorted),
                             rem100, factor10, high_power_min_kw)

\* 100 * pv_remaining, margin_pct being 100 * solar_margin.
PvRemaining100(pv_power_kw, margin_pct) == Max(pv_power_kw * (100 - margin_pct), 0)

\* A call that sorts the caller's list in place.
LoadsAfterCallSorted(loads) == SortedStable(loads, 80)

\* The caller's load list after the call: the function reads the list and
\* the loads' attributes, builds solar_eligible as a new list and sorts a
\* copy of it.
LoadsAfterCall(loads) == loads

allocate_sources_for_step(pv_power_kw, loads, margin_pct, factor10, high_power_min_kw) ==
    IF pv_power_kw <= 0 THEN AllGrid(EmptyDict, loads)
    ELSE GreedyWalk(GridOnlyPass(EmptyDict, loads),
                    SortedStable(SolarEligible(loads), high_power_min_kw),
                    PvRemaining100(pv_power_kw, margin_pct),
                    factor10, high_power_min_kw)

(***************************************************************************)
(* State.                                                                  *)
(*   cfg                     SwitchingController's configuration           *)
(*   step_index, state, force_grid_until_step                              *)
(*                           SwitchingController's _step_index, _state and *)
(*                           _force_grid_until_step (dicts keyed by name)  *)
(*   call                    the arguments, locals and result of the last  *)
(*                           decide() / allocate_sources_for_step() call   *)
(*   hist                    history of the calls: the step of each name's *)
(*                           latest spike, the step since which it has     *)
(*                           been in every call, the source last returned, *)
(*                           its run length and the suppressed switches    *)
(*   battery                 Battery's fields                              *)
(*   bop                     the last Battery operation and its result     *)
(*   drv                     the driver's parameters and the row it logged *)
(*                           for the last step                             *)
(***************************************************************************)
VARIABLES cfg, step_index, state, force_grid_until_step, call, hist,
          battery, bop, drv

vars == <<cfg, step_index, state, force_grid_until_step, call, hist,
          battery, bop, drv>>

ctlVars == <<cfg, step_index, state, force_grid_until_step, call, hist>>

(***************************************************************************)
(* SwitchingController                                                     *)
(***************************************************************************)
\* The defaults of __init__ and of allocate_sources_for_step.
DefaultMarginPct == 15
DefaultFactor10 == 6
DefaultHighPowerMinKw == 80

\* A derivation with no floor of one step.
CooldownStepsNoFloor(cooldown_seconds, step_seconds) ==
    cooldown_seconds \div step_seconds

\* __init__: cooldown_steps = max(cooldown_seconds // step_seconds, 1).
CooldownSteps(cooldown_seconds, step_seconds) ==
    Max(cooldown_seconds \div step_seconds, 1)

NewController(min_hold, step_seconds, cooldown_seconds, margin_pct, factor10, min_kw) ==
    [min_hold_steps |-> min_hold,
     step_seconds |-> step_seconds,
     cooldown_seconds |-> cooldown_seconds,
     cooldown_steps |-> CooldownSteps(cooldown_seconds, step_seconds),
     solar_margin |-> margin_pct,
     high_power_solar_factor |-> factor10,
     high_power_min_kw |-> min_kw]

\* An update that restarts the count on a change of source but keeps the
\* recorded source.
UpdateStateKeepsSource(st, name, new_source) ==
    IF name \notin DOMAIN st
    THEN DictSet(st, name, [source |-> new_source, steps |-> 1])
    ELSE IF st[name].source = new_source
         THEN DictSet(st, name, [source |-> new_source, steps |-> st[name].steps + 1])
         ELSE DictSet(st, name, [source |-> st[name].source, steps |-> 1])

\* A state update that goes on counting across a change of source.
UpdateStateKeepsCount(st, name, new_source) ==
    IF name \notin DOMAIN st
    THEN DictSet(st, name, [source |-> new_source, steps |-> 1])
    ELSE DictSet(st, name, [source |-> new_source, steps |-> st[name].steps + 1])

\* _update_state
UpdateState(st, name, new_source) ==
    IF name \notin DOMAIN st
    THEN DictSet(st, name, [source |-> new_source, steps |-> 1])
    ELSE IF st[name].source = new_source
         THEN DictSet(st, name, [source |-> new_source, steps |-> st[name].steps + 1])
         ELSE DictSet(st, name, [source |-> new_source, steps |-> 1])

\* The spike test of _check_and_update_spikes.
IsSpike(l) ==
    /\ l.high_event_threshold_kw # <<>>
    /\ l.power_kw >= l.high_event_threshold_kw[1]

\* A spike check that ends the window of a load that is back under its
\* threshold.
RECURSIVE CheckAndUpdateSpikesEndsWindow(_, _, _, _)
CheckAndUpdateSpikesEndsWindow(force, loads, step, cooldown_steps) ==
    IF loads = <<>> THEN force
    ELSE CheckAndUpdateSpikesEndsWindow(
             IF IsSpike(Head(loads))
             THEN DictSet(force, Head(loads).name, step + cooldown_steps)
             ELSE IF Head(loads).name \in DOMAIN force
                  THEN DictSet(force, Head(loads).name, step - 1)
                  ELSE force,
             Tail(loads), step, cooldown_steps)

\* _check_and_update_spikes, step being the already incremented _step_index.
RECURSIVE CheckAndUpdateSpikes(_, _, _, _)
CheckAndUpdateSpikes(force, loads, step, cooldown_steps) ==
    IF loads = <<>> THEN force
    ELSE CheckAndUpdateSpikes(
             IF IsSpike(Head(loads))
             THEN DictSet(force, Head(loads).name, step + cooldown_steps)
             ELSE force,
             Tail(loads), step, cooldown_steps)

\* A window that ends one step early.
ForcedNowStrict(force, name, step) ==
    name \in DOMAIN force /\ step < force[name]

\* A window that ends one step late.
ForcedNowLate(force, name, step) ==
    name \in DOMAIN force /\ step <= force[name] + 1

\* decide: is the load under a forced-grid window.
ForcedNow(force, name, step) ==
    name \in DOMAIN force /\ step <= force[name]

\* A hold that is one step long.
HysteresisLong(st, name, suggested_src, min_hold) ==
    IF name \notin DOMAIN st THEN suggested_src
    ELSE IF st[name].source = suggested_src THEN suggested_src
    ELSE IF st[name].steps > min_hold THEN suggested_src
    ELSE st[name].source

\* A hold that is one step short.
HysteresisShort(st, name, suggested_src, min_hold) ==
    IF name \notin DOMAIN st THEN suggested_src
    ELSE IF st[name].source = suggested_src THEN suggested_src
    ELSE IF st[name].steps + 1 >= min_hold THEN suggested_src
    ELSE st[name].source

\* decide: normal hysteresis, when no cooldown is active.
Hysteresis(st, name, suggested_src, min_hold) ==
    IF name \notin DOMAIN st THEN suggested_src
    ELSE IF st[name].source = suggested_src THEN suggested_src
    ELSE IF st[name].steps >= min_hold THEN suggested_src
    ELSE st[name].source

\* decide: final_src of one load.
FinalSource(force, st, name, suggested_src, step, min_hold) ==
    IF ForcedNow(force, name, step) THEN "GRID"
    ELSE Hysteresis(st, name, suggested_src, min_hold)

\* A loop that leaves the loads under a forced-grid window out of the result.
RECURSIVE DecideLoopOmitsForced(_, _, _, _, _, _)
DecideLoopOmitsForced(acc, loads, suggested, force, step, min_hold) ==
    IF loads = <<>> THEN acc
    ELSE LET name == Head(loads).name
             final_src == FinalSource(force, acc.state, name, suggested[name],
                                      step, min_hold)
         IN  DecideLoopOmitsForced(
                 [state |-> UpdateState(acc.state, name, final_src),
                  final |-> IF ForcedNow(force, name, step) THEN acc.final
                            ELSE DictSet(acc.final, name, final_src),
                  forced |-> IF ForcedNow(force, name, step)
                             THEN acc.forced \cup {name} ELSE acc.forced],
                 Tail(loads), suggested, force, step, min_hold)

\* decide: the loop over the loads; acc carries _state, final_allocation and
\* the names that took the forced branch.
RECURSIVE DecideLoop(_, _, _, _, _, _)
DecideLoop(acc, loads, suggested, force, step, min_hold) ==
    IF loads = <<>> THEN acc
    ELSE LET name == Head(loads).name
             final_src == FinalSource(force, acc.state, name, suggested[name],
                                      step, min_hold)
         IN  DecideLoop([state |-> UpdateState(acc.state, name, final_src),
                         final |-> DictSet(acc.final, name, final_src),
                         forced |-> IF ForcedNow(force, name, step)
                                    THEN acc.forced \cup {name} ELSE acc.forced],
                        Tail(loads), suggested, force, step, min_hold)

\* A decide that does not count a call with an empty load list.
DecideResultIdleOnEmpty(c, idx, st, force, pv_power_kw, loads) ==
    LET step == IF loads = <<>> THEN idx ELSE idx + 1
        force2 == CheckAndUpdateSpikes(force, loads, step, c.cooldown_steps)
        suggested == allocate_sources_for_step(pv_power_kw, loads, c.solar_margin,
                         c.high_power_solar_factor, c.high_power_min_kw)
        res == DecideLoop([state |-> st, final |-> EmptyDict, forced |-> {}],
                          loads, suggested, force2, step, c.min_hold_steps)
    IN  [step_index |-> step, force |-> force2, suggested |-> suggested,
         state |-> res.state, final |-> res.final, forced |-> res.forced]

\* A decide that keeps the DispatchState of the loads of the call only.
DecideResultForgetsAbsent(c, idx, st, force, pv_power_kw, loads) ==
    LET step == idx + 1
        force2 == CheckAndUpdateSpikes(force, loads, step, c.cooldown_steps)
        suggested == allocate_sources_for_step(pv_power_kw, loads, c.solar_margin,
                         c.high_power_solar_factor, c.high_power_min_kw)
        res == DecideLoop([state |-> st, final |-> EmptyDict, forced |-> {}],
                          loads, suggested, force2, step, c.min_hold_steps)
    IN  [step_index |-> step, force |-> force2, suggested |-> suggested,
         state |-> [n \in NamesOf(loads) |-> res.state[n]],
         final |-> res.final, forced |-> res.forced]

\* A decide that gives the allocator only the loads under no forced-grid
\* window, so that the others share the budget of the forced ones.
DecideResultReleasesForced(c, idx, st, force, pv_power_kw, loads) ==
    LET step == idx + 1
        force2 == CheckAndUpdateSpikes(force, loads, step, c.cooldown_steps)
        suggested ==
            allocate_sources_for_step(pv_power_kw,
                SelectSeq(loads, LAMBDA l : ~ForcedNow(force2, l.name, step)),
                c.solar_margin, c.high_power_solar_factor, c.high_power_min_kw)
            @@ AllGrid(EmptyDict, loads)
        res == DecideLoop([state |-> st, final |-> EmptyDict, forced |-> {}],
                          loads, suggested, force2, step, c.min_hold_steps)
    IN  [step_index |-> step, force |-> force2, suggested |-> suggested,
         state |-> res.state, final |-> res.final, forced |-> res.forced]

\* decide(pv_power_kw, loads) on the controller (c, idx, st, force): the new
\* controller state, the suggestion and the returned allocation.
DecideResult(c, idx, st, force, pv_power_kw, loads) ==
    LET step == idx + 1
        force2 == CheckAndUpdateSpikes(force, loads, step, c.cooldown_steps)
        suggested == allocate_sources_for_step(pv_power_kw, loads, c.solar_margin,
                         c.high_power_solar_factor, c.high_power_min_kw)
        res == DecideLoop([state |-> st, final |-> EmptyDict, forced |-> {}],
                          loads, suggested, force2, step, c.min_hold_steps)
    IN  [step_index |-> step, force |-> force2, suggested |-> suggested,
         state |-> res.state, final |-> res.final, forced |-> res.forced]

\* The history after a call: the latest spike of each name, the step since
\* which each name has been in every call, the source last returned for it
\* and the number of its latest appearances with this source returned at each.
HistAfter(h, loads, step, final) ==
    [last_spike |->
        [n \in DOMAIN h.last_spike \cup {l.name : l \in {loads[i] : i \in 1..Len(loads)}} |->
            IF \E i \in 1..Len(loads) : loads[i].name = n /\ IsSpike(loads[i]) THEN step
            ELSE IF n \in DOMAIN h.last_spike THEN h.last_spike[n]
            ELSE 0],
     present_from |->
        [n \in NamesOf(loads) |->
            IF n \in DOMAIN h.present_from THEN h.present_from[n] ELSE step],
     last_out |-> final @@ h.last_out,
     run |->
        [n \in DOMAIN h.run \cup NamesOf(loads) |->
            IF n \notin NamesOf(loads) THEN h.run[n]
            ELSE IF n \in DOMAIN h.last_out /\ h.last_out[n] = final[n]
                 THEN h.run[n] + 1
                 ELSE 1]]

\* For each load of a call, the number of calls in a row, up to this one, that
\* had the load, with no window active for it, and returned for it another
\* source than the allocator's suggestion.
SuppressedAfter(sup, loads, suggested, final, forced) ==
    [n \in NamesOf(loads) |->
        IF n \notin forced /\ final[n] # suggested[n]
        THEN (IF n \in DOMAIN sup THEN sup[n] ELSE 0) + 1
        ELSE 0]

\* The names of the loads that spike at a step inside their window.
Respiked(force, loads, step) ==
    {loads[i].name : i \in {j \in 1..Len(loads) :
        IsSpike(loads[j]) /\ ForcedNow(force, loads[j].name, step)}}

NoCall ==
    [kind |-> "none", pv |-> 0, loads |-> <<>>, suggested |-> EmptyDict,
     final |-> EmptyDict, forced |-> {}, prev_state |-> EmptyDict,
     prev_out |-> EmptyDict, prev_run |-> EmptyDict, respiked |-> {},
     loads_after |-> <<>>]

NoHist ==
    [last_spike |-> EmptyDict, present_from |-> EmptyDict, last_out |-> EmptyDict,
     run |-> EmptyDict, sup |-> EmptyDict]

\* The controller part of a step: decide(pv, loads) on the controller state.
ControllerDecides(pv, loads) ==
    \E r \in {DecideResult(cfg, step_index, state, force_grid_until_step, pv, loads)} :
        /\ step_index' = r.step_index
        /\ force_grid_until_step' = r.force
        /\ state' = r.state
        /\ call' = [kind |-> "decide", pv |-> pv, loads |-> loads,
                    suggested |-> r.suggested, final |-> r.final,
                    forced |-> r.forced, prev_state |-> state,
                    prev_out |-> hist.last_out, prev_run |-> hist.run,
                    respiked |-> Respiked(force_grid_until_step, loads,
                                          r.step_index),
                    loads_after |-> LoadsAfterCall(loads)]
        /\ hist' = [sup |-> SuppressedAfter(hist.sup, loads, r.suggested, r.final,
                                             r.forced)]
                    @@ HistAfter(hist, loads, r.step_index, r.final)
        /\ cfg' = cfg

(***************************************************************************)
(* Battery                                                                 *)
(*                                                                         *)
(* dt_hours is StepMinutes / 60 and both efficiencies are EffNum / EffDen  *)
(* (0.95).  Energies (soc_kwh, capacity_kwh) are integers in units of      *)
(* 0.01 kWh / (60 * EffNum * EffDen): charging at p ckW for one step adds  *)
(* p * StepMinutes * EffNum^2 units, discharging at p ckW draws            *)
(* p * StepMinutes * EffDen^2 units.  The powers the battery returns, and  *)
(* the flows computed from them, are integers in units of 1 / PowerScale   *)
(* ckW, so the capped branches (room / (dt * eff), soc * eff / dt) are     *)
(* exact as well.                                                          *)
(***************************************************************************)
StepMinutes == 1
EffNum == 19
EffDen == 20

\* Fine power units per ckW.
PowerScale == StepMinutes * EffNum * EffNum * EffDen * EffDen

\* Energy units per 0.01 kWh.
EnergyScale == 60 * EffNum * EffDen

\* __init__: soc_kwh = min(max(soc_initial_kwh, 0.0), capacity_kwh).
NewBattery(capacity, soc_initial, max_charge_kw, max_discharge_kw) ==
    [capacity_kwh |-> capacity,
     soc_kwh |-> Min(Max(soc_initial, 0), capacity),
     max_charge_kw |-> max_charge_kw,
     max_discharge_kw |-> max_discharge_kw]

\* A charge that takes the power limit whatever is available.
BatteryChargeAtLimit(b, available_kw) ==
    IF available_kw <= 0 \/ b.capacity_kwh <= 0
    THEN [power |-> 0, battery |-> b]
    ELSE LET power == b.max_charge_kw
             energy_in_kwh == power * StepMinutes * EffNum * EffNum
             room_kwh == b.capacity_kwh - b.soc_kwh
         IN  IF energy_in_kwh > room_kwh
             THEN [power |-> room_kwh * EffDen * EffDen,
                   battery |-> [b EXCEPT !.soc_kwh = b.soc_kwh + room_kwh]]
             ELSE [power |-> power * PowerScale,
                   battery |-> [b EXCEPT !.soc_kwh = b.soc_kwh + energy_in_kwh]]

\* A charge that ignores the remaining room.
BatteryChargeNoRoom(b, available_kw) ==
    IF available_kw <= 0 \/ b.capacity_kwh <= 0
    THEN [power |-> 0, battery |-> b]
    ELSE LET power == Min(available_kw, b.max_charge_kw)
         IN  [power |-> power * PowerScale,
              battery |-> [b EXCEPT !.soc_kwh =
                               b.soc_kwh + power * StepMinutes * EffNum * EffNum]]

\* charge(available_kw, dt_hours): the returned power (fine units) and the
\* battery afterwards.
BatteryCharge(b, available_kw) ==
    IF available_kw <= 0 \/ b.capacity_kwh <= 0
    THEN [power |-> 0, battery |-> b]
    ELSE LET power == Min(available_kw, b.max_charge_kw)
             energy_in_kwh == power * StepMinutes * EffNum * EffNum
             room_kwh == b.capacity_kwh - b.soc_kwh
         IN  IF energy_in_kwh > room_kwh
             THEN [power |-> room_kwh * EffDen * EffDen,
                   battery |-> [b EXCEPT !.soc_kwh = b.soc_kwh + room_kwh]]
             ELSE [power |-> power * PowerScale,
                   battery |-> [b EXCEPT !.soc_kwh = b.soc_kwh + energy_in_kwh]]

\* A discharge that reports the requested power when the stored energy cut
\* it short.
BatteryDischargeReportsRequested(b, required_kw) ==
    IF required_kw <= 0 \/ b.capacity_kwh <= 0
    THEN [power |-> 0, battery |-> b]
    ELSE LET power == Min(required_kw, b.max_discharge_kw)
             energy_out_kwh == power * StepMinutes * EffDen * EffDen
         IN  IF energy_out_kwh > b.soc_kwh
             THEN [power |-> power * PowerScale,
                   battery |-> [b EXCEPT !.soc_kwh = b.soc_kwh - b.soc_kwh]]
             ELSE [power |-> power * PowerScale,
                   battery |-> [b EXCEPT !.soc_kwh = b.soc_kwh - energy_out_kwh]]

\* A discharge at the power limit whatever is required.
BatteryDischargeAtLimit(b, required_kw) ==
    IF required_kw <= 0 \/ b.capacity_kwh <= 0
    THEN [power |-> 0, battery |-> b]
    ELSE LET power == b.max_discharge_kw
             energy_out_kwh == power * StepMinutes * EffDen * EffDen
         IN  IF energy_out_kwh > b.soc_kwh
             THEN [power |-> b.soc_kwh * EffNum * EffNum,
                   battery |-> [b EXCEPT !.soc_kwh = b.soc_kwh - b.soc_kwh]]
             ELSE [power |-> power * PowerScale,
                   battery |-> [b EXCEPT !.soc_kwh = b.soc_kwh - energy_out_kwh]]

\* A discharge that does not test the capacity.
BatteryDischargeAnyCapacity(b, required_kw) ==
    IF required_kw <= 0
    THEN [power |-> 0, battery |-> b]
    ELSE LET power == Min(required_kw, b.max_discharge_kw)
             energy_out_kwh == power * StepMinutes * EffDen * EffDen
         IN  IF energy_out_kwh > b.soc_kwh
             THEN [power |-> b.soc_kwh * EffNum * EffNum,
                   battery |-> [b EXCEPT !.soc_kwh = b.soc_kwh - b.soc_kwh]]
             ELSE [power |-> power * PowerScale,
                   battery |-> [b EXCEPT !.soc_kwh = b.soc_kwh - energy_out_kwh]]

\* discharge(required_kw, dt_hours): the returned power (fine units) and the
\* battery afterwards.
BatteryDischarge(b, required_kw) ==
    IF required_kw <= 0 \/ b.capacity_kwh <= 0
    THEN [power |-> 0, battery |-> b]
    ELSE LET power == Min(required_kw, b.max_discharge_kw)
             energy_out_kwh == power * StepMinutes * EffDen * EffDen
         IN  IF energy_out_kwh > b.soc_kwh
             THEN [power |-> b.soc_kwh * EffNum * EffNum,
                   battery |-> [b EXCEPT !.soc_kwh = b.soc_kwh - b.soc_kwh]]
             ELSE [power |-> power * PowerScale,
                   battery |-> [b EXCEPT !.soc_kwh = b.soc_kwh - energy_out_kwh]]

\* soc_ratio > ratio, the ratio being num / den.
SocRatioAbove(b, num, den) ==
    IF b.capacity_kwh > 0 THEN b.soc_kwh * den > num * b.capacity_kwh
    ELSE 0 > num

NoOp == [op |-> "none", requested |-> 0, power |-> 0, soc_before |-> 0, n |-> 0]

(***************************************************************************)
(* The battery drivers: run_daily_sim_with_battery and run_multi_spike_day *)
(* (the same step), and run_grid_blackout_day.  One step of the loop is    *)
(* one action: decide(), the overrides, the energy flows and the battery   *)
(* operations.  The generators of the per-minute generation and load       *)
(* values are inputs: each step draws its values from small sets.          *)
(***************************************************************************)
\* The load list the drivers build each step: circuits that can run on solar,
\* with a spike threshold of 0.8 kW, and grid-only heavy loads.
DriverLoads(bedroom_kw, kitchen_kw, geyser_kw) ==
    << Load("bedroom_circuit", bedroom_kw, TRUE, FALSE, <<80>>),
       Load("kitchen_circuit", kitchen_kw, TRUE, FALSE, <<80>>),
       Load("geyser", geyser_kw, FALSE, FALSE, <<>>) >>

\* for load in loads: if load.can_run_on_solar: allocation[load.name] = src
RECURSIVE OverrideEligible(_, _, _)
OverrideEligible(allocation, loads, src) ==
    IF loads = <<>> THEN allocation
    ELSE OverrideEligible(IF Head(loads).can_run_on_solar
                          THEN DictSet(allocation, Head(loads).name, src)
                          ELSE allocation,
                          Tail(loads), src)

\* A night-time rule that never looks at the reserve.
ReserveOverrideNoReserve(allocation, loads, pv_power_kw, b, reserve_num, reserve_den) ==
    IF pv_power_kw = 0 THEN OverrideEligible(allocation, loads, "SOLAR")
    ELSE allocation

\* The night-time reserve rule.
ReserveOverride(allocation, loads, pv_power_kw, b, reserve_num, reserve_den) ==
    IF pv_power_kw = 0
    THEN IF SocRatioAbove(b, reserve_num, reserve_den)
         THEN OverrideEligible(allocation, loads, "SOLAR")
         ELSE OverrideEligible(allocation, loads, "GRID")
    ELSE allocation

\* No blackout override.
BlackoutOverrideNone(allocation, loads, blackout_active) == allocation

\* The grid blackout override of run_grid_blackout_day.
BlackoutOverride(allocation, loads, blackout_active) ==
    IF blackout_active THEN OverrideEligible(allocation, loads, "SOLAR")
    ELSE allocation

\* The summed power of the loads whose source is src (SOLAR) or is not SOLAR.
RECURSIVE SideLoad(_, _, _)
SideLoad(allocation, loads, solar) ==
    IF loads = <<>> THEN 0
    ELSE (IF (allocation[Head(loads).name] = "SOLAR") = solar
          THEN Head(loads).power_kw ELSE 0)
         + SideLoad(allocation, Tail(loads), solar)

\* Flows that offer the battery the whole generation, the part gone to the
\* loads included.
EnergyFlowsChargesFromAllPv(allocation, loads, pv_power_kw, b, kind, grid_available) ==
    LET gridSupport == kind # "grid_blackout"
        inverter_side_load_kw == SideLoad(allocation, loads, TRUE)
        grid_side_load_kw == SideLoad(allocation, loads, FALSE)
        pv_to_load_kw == Min(pv_power_kw, inverter_side_load_kw)
        remaining_pv_kw == Max(pv_power_kw, 0)
        deficit_kw == Max(inverter_side_load_kw - pv_to_load_kw, 0)
        dis == IF deficit_kw > 0 THEN BatteryDischarge(b, deficit_kw)
               ELSE [power |-> 0, battery |-> b]
        grid_support_kw == IF deficit_kw > 0 /\ gridSupport
                           THEN Max(deficit_kw * PowerScale - dis.power, 0)
                           ELSE 0
        chg == IF remaining_pv_kw > 0 THEN BatteryCharge(dis.battery, remaining_pv_kw)
               ELSE [power |-> 0, battery |-> dis.battery]
        pv_wasted_kw == IF remaining_pv_kw > 0
                        THEN Max(remaining_pv_kw * PowerScale - chg.power, 0)
                        ELSE 0
    IN  [inverter_side_load_kw |-> inverter_side_load_kw * PowerScale,
         grid_side_load_kw |-> grid_side_load_kw * PowerScale,
         pv_to_load_kw |-> pv_to_load_kw * PowerScale,
         deficit_kw |-> deficit_kw * PowerScale,
         battery_discharge_kw |-> dis.power,
         grid_support_kw |-> grid_support_kw,
         battery_charge_kw |-> chg.power,
         pv_to_battery_kw |-> chg.power,
         pv_wasted_kw |-> pv_wasted_kw,
         grid_to_load_kw |-> IF gridSupport
                             THEN grid_side_load_kw * PowerScale + grid_support_kw
                             ELSE IF grid_available
                                  THEN grid_side_load_kw * PowerScale
                                  ELSE 0,
         battery |-> chg.battery]

\* The energy flows of one step, in fine power units.  run_grid_blackout_day
\* (kind "grid_blackout") computes no grid support for the inverter side and
\* serves the grid side only when the grid is available; the other drivers
\* have no blackout and add the grid support to the grid side.
EnergyFlows(allocation, loads, pv_power_kw, b, kind, grid_available) ==
    LET gridSupport == kind # "grid_blackout"
        inverter_side_load_kw == SideLoad(allocation, loads, TRUE)
        grid_side_load_kw == SideLoad(allocation, loads, FALSE)
        pv_to_load_kw == Min(pv_power_kw, inverter_side_load_kw)
        remaining_pv_kw == Max(pv_power_kw - pv_to_load_kw, 0)
        deficit_kw == Max(inverter_side_load_kw - pv_to_load_kw, 0)
        dis == IF deficit_kw > 0 THEN BatteryDischarge(b, deficit_kw)
               ELSE [power |-> 0, battery |-> b]
        grid_support_kw == IF deficit_kw > 0 /\ gridSupport
                           THEN Max(deficit_kw * PowerScale - dis.power, 0)
                           ELSE 0
        chg == IF remaining_pv_kw > 0 THEN BatteryCharge(dis.battery, remaining_pv_kw)
               ELSE [power |-> 0, battery |-> dis.battery]
        pv_wasted_kw == IF remaining_pv_kw > 0
                        THEN Max(remaining_pv_kw * PowerScale - chg.power, 0)
                        ELSE 0
    IN  [inverter_side_load_kw |-> inverter_side_load_kw * PowerScale,
         grid_side_load_kw |-> grid_side_load_kw * PowerScale,
         pv_to_load_kw |-> pv_to_load_kw * PowerScale,
         deficit_kw |-> deficit_kw * PowerScale,
         battery_discharge_kw |-> dis.power,
         grid_support_kw |-> grid_support_kw,
         battery_charge_kw |-> chg.power,
         pv_to_battery_kw |-> chg.power,
         pv_wasted_kw |-> pv_wasted_kw,
         grid_to_load_kw |-> IF gridSupport
                             THEN grid_side_load_kw * PowerScale + grid_support_kw
                             ELSE IF grid_available
                                  THEN grid_side_load_kw * PowerScale
                                  ELSE 0,
         battery |-> chg.battery]

NoFlows ==
    [inverter_side_load_kw |-> 0, grid_side_load_kw |-> 0, pv_to_load_kw |-> 0,
     deficit_kw |-> 0, battery_discharge_kw |-> 0, grid_support_kw |-> 0,
     battery_charge_kw |-> 0, pv_to_battery_kw |-> 0, pv_wasted_kw |-> 0,
     grid_to_load_kw |-> 0]

\* The driver's parameters and, once a step has run, the step's row.
NewDriver(kind, reserve_num, reserve_den) ==
    [kind |-> kind, reserve_num |-> reserve_num, reserve_den |-> reserve_den,
     steps |-> 0, grid_available |-> TRUE, allocation |-> EmptyDict,
     soc_before |-> 0, flows |-> NoFlows]

\* The row of a step.
DriverRow(grid_available, allocation, f) ==
    [drv EXCEPT !.steps = drv.steps + 1,
                !.grid_available = grid_available,
                !.allocation = allocation,
                !.soc_before = battery.soc_kwh,
                !.flows = [k \in DOMAIN NoFlows |-> f[k]]]

(***************************************************************************)
(* Bounds and input sets.                                                  *)
(***************************************************************************)
\* decide() calls per controller.
MaxSteps == 4
\* Loads per call.
MaxLoads == 2
\* Battery operations per battery.
MaxOps == 4
\* Steps per driver run.
MaxDriverSteps == 3

Sources == {"SOLAR", "GRID"}

\* Generation values [ckW] of the controller's calls.
PvValues == {0, 40, 400}

\* The load descriptors a controller call draws from.
LoadPool ==
    { Load("kitchen", 20, TRUE, FALSE, <<80>>),
      Load("kitchen", 120, TRUE, FALSE, <<80>>),
      Load("hall", 30, TRUE, FALSE, <<>>),
      Load("hall", 90, FALSE, TRUE, <<>>) }

\* Load lists of at most n loads with pairwise distinct names.
LoadLists(pool, n) ==
    { s \in UNION { [1..k -> pool] : k \in 0..n } :
        \A i, j \in 1..Len(s) : s[i].name = s[j].name => i = j }

CallInputs == LoadLists(LoadPool, MaxLoads)

\* (min_hold_steps, step_seconds, cooldown_seconds): the drivers' controller
\* (hold 2, 60 s steps, 30 s cooldown: cooldown_steps 1), the same with a hold
\* of 3, and 5 s steps with a 10 s cooldown (cooldown_steps 2) and a hold of 1.
Timings == { <<2, 60, 30>>, <<3, 60, 30>>, <<1, 5, 10>> }

\* Requested powers [ckW] of the battery operations.
RequestValues == {-20, 0, 20, 45, 120}

\* Battery capacity: 0.02 kWh, so that a few steps fill or empty it.
SmallCapacity == 2 * EnergyScale

\* Initial soc as a percentage of the capacity.
InitialSocPct == {10, 50, 100}

(***************************************************************************)
(* The controller on its own: Spec.                                        *)
(***************************************************************************)
IdleBattery == NewBattery(SmallCapacity, 0, 0, 0)

IdleDriver == NewDriver("none", 0, 1)

Init ==
    /\ cfg \in { NewController(t[1], t[2], t[3], DefaultMarginPct, DefaultFactor10,
                               DefaultHighPowerMinKw) : t \in Timings }
    /\ step_index = 0
    /\ state = EmptyDict
    /\ force_grid_until_step = EmptyDict
    /\ call = NoCall
    /\ hist = NoHist
    /\ battery = IdleBattery
    /\ bop = NoOp
    /\ drv = IdleDriver

\* decide(pv_power_kw, loads)
Decide(pv, loads) ==
    /\ step_index < MaxSteps
    /\ ControllerDecides(pv, loads)
    /\ UNCHANGED <<battery, bop, drv>>

Next == \E pv \in PvValues, loads \in CallInputs : Decide(pv, loads)

Spec == Init /\ [][Next]_vars

(***************************************************************************)
(* Properties of the controller (Spec).                                    *)
(***************************************************************************)
\* The names of the last decide() call.
Decided == IF call.kind = "decide" THEN NamesOf(call.loads) ELSE {}

\* The load of the last call named n.
LoadNamed(n) == CHOOSE l \in {call.loads[i] : i \in 1..Len(call.loads)} : l.name = n

\* n has spiked in some call, the latest time at step hist.last_spike[n].
HasSpiked(n) == n \in DOMAIN hist.last_spike /\ hist.last_spike[n] > 0

\* C1: once a load spikes at step t (threshold set, power >= threshold),
\* decide() returns GRID for it at every call with step index in
\* [t, t + cooldown_steps], whatever its later power, the generation, its
\* previous source and its hold counter.
C1_CooldownForcesGrid ==
    \A n \in Decided :
        (HasSpiked(n) /\ step_index <= hist.last_spike[n] + cfg.cooldown_steps)
            => call.final[n] = "GRID"

\* C1's case: the last step of a two-step window, the load back under its
\* threshold and suggested SOLAR, after having been on SOLAR before the spike.
C1_Witness ==
    \E n \in Decided :
        /\ HasSpiked(n)
        /\ cfg.cooldown_steps = 2
        /\ step_index = hist.last_spike[n] + cfg.cooldown_steps
        /\ ~IsSpike(LoadNamed(n))
        /\ call.suggested[n] = "SOLAR"
        /\ call.final[n] = "GRID"

\* The suggestion for n flips while n's hold is not over.
FlipInsideHold(n) ==
    /\ n \in DOMAIN call.prev_state
    /\ call.suggested[n] # call.prev_state[n].source
    /\ call.prev_state[n].steps < cfg.min_hold_steps

\* C2 as stated: whenever the suggestion for a load with a DispatchState
\* differs from its recorded source and steps_at_current_source is below
\* min_hold_steps, decide() returns the source it returned at the load's
\* previous step.
C2_NoFlipInsideHold ==
    \A n \in Decided :
        FlipInsideHold(n) => call.final[n] = call.prev_out[n]

\* C2 amended: the same, for a load with no active forcing window at the step.
C2_NoFlipInsideHoldUnlessForced ==
    \A n \in Decided :
        (FlipInsideHold(n) /\ n \notin call.forced)
            => call.final[n] = call.prev_out[n]

\* C2's case: a flip to SOLAR and a flip to GRID are both suppressed.
C2_Witness ==
    \E n \in Decided :
        /\ FlipInsideHold(n)
        /\ n \notin call.forced
        /\ call.suggested[n] = "GRID"
        /\ call.final[n] = "SOLAR"
        /\ call.prev_out[n] = "SOLAR"

\* The step is the first one after n's window: t + cooldown_steps + 1.
FirstStepAfterWindow(n) ==
    HasSpiked(n) /\ step_index = hist.last_spike[n] + cfg.cooldown_steps + 1

\* n has been in every call since its latest spike.
PresentSinceSpike(n) ==
    n \in DOMAIN hist.present_from /\ hist.present_from[n] <= hist.last_spike[n]

\* C10 as stated: a load that spiked at step t, stayed below its threshold
\* afterwards and was in every call follows the allocator's suggestion at
\* step t + cooldown_steps + 1.
C10_FollowsSuggestionAfterWindow ==
    \A n \in Decided :
        (FirstStepAfterWindow(n) /\ PresentSinceSpike(n))
            => call.final[n] = call.suggested[n]

\* C10 amended: the load is forced to GRID at exactly the steps
\* t .. t + cooldown_steps; at step t + cooldown_steps + 1 it is no longer
\* forced and hysteresis alone decides: the output is the suggestion, or
\* stays GRID while the load has been on GRID for fewer than min_hold_steps
\* steps, which cannot happen when min_hold_steps <= cooldown_steps + 1.
C10_WindowThenHysteresis ==
    \A n \in Decided :
        HasSpiked(n) =>
            /\ step_index <= hist.last_spike[n] + cfg.cooldown_steps
                   => (n \in call.forced /\ call.final[n] = "GRID")
            /\ FirstStepAfterWindow(n) =>
                   /\ n \notin call.forced
                   /\ \/ call.final[n] = call.suggested[n]
                      \/ /\ call.final[n] = "GRID"
                         /\ n \in DOMAIN call.prev_state
                         /\ call.prev_state[n].source = "GRID"
                         /\ call.prev_state[n].steps < cfg.min_hold_steps
                   /\ (PresentSinceSpike(n) /\ cfg.min_hold_steps <= cfg.cooldown_steps + 1)
                          => call.final[n] = call.suggested[n]

\* C10's case: the first step after a two-step window, the load in every
\* call since the spike, and its output back on SOLAR as suggested.
C10_Witness ==
    \E n \in Decided :
        /\ FirstStepAfterWindow(n)
        /\ PresentSinceSpike(n)
        /\ cfg.cooldown_steps = 2
        /\ call.prev_state[n].source = "GRID"
        /\ call.suggested[n] = "SOLAR"
        /\ call.final[n] = "SOLAR"

\* C11: across any sequence of decide() calls on one controller, the
\* force_grid_until_step entry of each load name is never cleared and never
\* decreases: a spike that re-triggers inside an active window rewrites it
\* with step_index + cooldown_steps, which is at least the value it had.
C11_WindowNeverShortened ==
    [][\A n \in DOMAIN force_grid_until_step :
           /\ n \in DOMAIN force_grid_until_step'
           /\ force_grid_until_step'[n] >= force_grid_until_step[n]]_vars

\* C11's case: a load has spiked again at the last step of a two-step
\* window, which now ends two steps later.
C11_Witness ==
    \E n \in call.respiked :
        /\ cfg.cooldown_steps = 2
        /\ step_index >= 3
        /\ IsSpike(LoadNamed(n))
        /\ force_grid_until_step[n] = step_index + cfg.cooldown_steps

\* n's source was held by hysteresis: not forced, and not the suggestion.
HeldByHysteresis(n) ==
    /\ n \notin call.forced
    /\ call.final[n] # call.suggested[n]

\* C14: for a load list with pairwise distinct names, the mapping returned
\* by allocate_sources_for_step and the mapping returned by decide() have
\* exactly the input names as keys, each mapped to SOLAR or GRID, on every
\* branch (no generation, grid-only load, budget exhausted, forced, held by
\* hysteresis).
C14_OutputKeysAreInputNames ==
    call.kind = "decide" =>
        /\ DOMAIN call.suggested = NamesOf(call.loads)
        /\ DOMAIN call.final = NamesOf(call.loads)
        /\ \A n \in NamesOf(call.loads) :
               call.suggested[n] \in Sources /\ call.final[n] \in Sources

\* C14's case: a call with two loads and generation, one load grid-only or
\* over the budget and held on SOLAR by hysteresis, the other one forced to
\* GRID against the suggestion; both are in both mappings.
C14_Witness ==
    /\ call.kind = "decide"
    /\ call.pv > 0
    /\ Len(call.loads) = 2
    /\ \E n, m \in Decided :
        /\ n \in call.forced
        /\ call.suggested[n] = "SOLAR"
        /\ call.final[n] = "GRID"
        /\ HeldByHysteresis(m)
        /\ call.suggested[m] = "GRID"
        /\ call.final[m] = "SOLAR"
    /\ DOMAIN call.final = NamesOf(call.loads)

\* C20: in every reachable controller state every DispatchState entry has
\* steps_at_current_source >= 1 and its current_source is the source decide()
\* most recently returned for that load name.
C20_DispatchStateTracksOutput ==
    \A n \in DOMAIN state :
        /\ state[n].steps >= 1
        /\ n \in DOMAIN hist.last_out
        /\ state[n].source = hist.last_out[n]

\* C20's case: the last call changed the source of one load, whose count
\* restarted at 1, while the entry of a load that was not in the call still
\* holds what an earlier call returned for it, with a count above 1.
C20_Witness ==
    \E n \in Decided, m \in DOMAIN state \ Decided :
        /\ n \in DOMAIN call.prev_state
        /\ call.prev_state[n].source # call.final[n]
        /\ state[n] = [source |-> call.final[n], steps |-> 1]
        /\ state[m].steps >= 2
        /\ state[m].source = call.prev_out[m]

\* C21: step_index increases by exactly 1 on every decide() call, a call with
\* an empty load list and a call in which every load is forced included, and
\* is never reset or decreased.
C21_StepIndexCountsCalls ==
    [][step_index' = step_index + 1]_vars

\* C21's case: the third call of a controller has an empty load list, after
\* calls with loads, and is counted.
C21_Witness ==
    /\ call.kind = "decide"
    /\ call.loads = <<>>
    /\ step_index = 3
    /\ DOMAIN state # {}

\* C30: a decide() call leaves unchanged the DispatchState and the
\* force_grid_until_step entry of every load name that is not in the call's
\* load list, and no call deletes a DispatchState or a forcing entry.
C30_AbsentLoadsUntouched ==
    [][/\ \A n \in DOMAIN state :
              /\ n \in DOMAIN state'
              /\ n \notin NamesOf(call'.loads) => state'[n] = state[n]
       /\ \A n \in DOMAIN force_grid_until_step :
              /\ n \in DOMAIN force_grid_until_step'
              /\ n \notin NamesOf(call'.loads)
                     => force_grid_until_step'[n] = force_grid_until_step[n]]_vars

\* C30's case: the last call had a load but not the one that spiked earlier;
\* that one's DispatchState and forcing entry are still there, the window
\* still open.
C30_Witness ==
    /\ call.kind = "decide"
    /\ call.loads # <<>>
    /\ \E m \in DOMAIN force_grid_until_step \ Decided :
        /\ m \in DOMAIN state
        /\ state[m].source = "GRID"
        /\ step_index <= force_grid_until_step[m]

\* C25: across any sequence of decide() calls, whenever the source returned
\* for a load differs from the source returned at the load's previous
\* appearance and no forcing window is active for the load at that step, the
\* previous source had been returned for at least min_hold_steps consecutive
\* appearances of the load.
C25_SwitchOnlyAfterHold ==
    \A n \in NamesOf(call.loads) \cap DOMAIN call.prev_out :
        (call.final[n] # call.prev_out[n] /\ n \notin call.forced)
            => call.prev_run[n] >= cfg.min_hold_steps

\* C25's case: with a hold of three steps, a load whose source was returned
\* at exactly three appearances in a row is switched with no window active.
C25_Witness ==
    /\ call.kind = "decide"
    /\ cfg.min_hold_steps = 3
    /\ \E n \in NamesOf(call.loads) \cap DOMAIN call.prev_out :
        /\ call.final[n] # call.prev_out[n]
        /\ n \notin call.forced
        /\ call.prev_run[n] = 3

\* C26 as stated: after any sequence of decide() calls in which a load
\* name's attributes may differ from one step to the next, decide() never
\* returns SOLAR for a load whose can_run_on_solar is false in the current
\* step.
C26_GridOnlyNeverSolar ==
    call.kind = "decide" =>
        \A i \in 1..Len(call.loads) :
            ~call.loads[i].can_run_on_solar => call.final[call.loads[i].name] = "GRID"

\* C29: if from some step on load L appears in every decide() call, no
\* forcing window is active for L and the allocator's suggestion for L is the
\* constant source S, then the switch to S is suppressed for at most
\* min_hold_steps - 1 consecutive steps, after which decide() returns S for L
\* and keeps returning S at every later step while those conditions hold.
C29_SuppressionBounded ==
    call.kind = "decide" =>
        \A n \in NamesOf(call.loads) :
            /\ hist.sup[n] <= cfg.min_hold_steps - 1
            /\ ( /\ n \notin call.forced
                 /\ n \in DOMAIN call.prev_out
                 /\ call.prev_out[n] = call.suggested[n] )
               => call.final[n] = call.suggested[n]

\* C29's case: with a hold of three steps, the switch of a load has been
\* suppressed at two calls in a row.
C29_Witness ==
    /\ call.kind = "decide"
    /\ cfg.min_hold_steps = 3
    /\ \E n \in NamesOf(call.loads) :
        /\ hist.sup[n] = 2
        /\ call.final[n] # call.suggested[n]
        /\ n \notin call.forced

(***************************************************************************)
(* The controller with unchecked load lists: SpecAnyList.  decide() takes  *)
(* the list as given; two loads of a list may have the same name.          *)
(***************************************************************************)
\* decide() calls per controller in SpecAnyList.
MaxAnySteps == 3

\* Load lists of at most n loads, names repeated or not.
AnyLists(pool, n) == UNION { [1..k -> pool] : k \in 0..n }

AnyInputs == AnyLists(LoadPool, MaxLoads)

\* decide(pv_power_kw, loads) with any list.
DecideAnyList(pv, loads) ==
    /\ step_index < MaxAnySteps
    /\ ControllerDecides(pv, loads)
    /\ UNCHANGED <<battery, bop, drv>>

NextAnyList == \E pv \in PvValues, loads \in AnyInputs : DecideAnyList(pv, loads)

SpecAnyList == Init /\ [][NextAnyList]_vars

\* Two loads of the list have the same name.
HasDuplicateNames(loads) ==
    \E i, j \in 1..Len(loads) : i # j /\ loads[i].name = loads[j].name

\* C15 as stated: a decide() call whose load list has two loads with the
\* same name fails and the step is not processed: step_index, every
\* DispatchState entry and every forcing window are the same after the call
\* as before it.
C15_DuplicateNamesNotProcessed ==
    [][HasDuplicateNames(call'.loads)
           => UNCHANGED <<step_index, state, force_grid_until_step>>]_vars

(***************************************************************************)
(* The allocator on its own: SpecAlloc.  The arguments of                  *)
(* allocate_sources_for_step are drawn from bounded sets: the margin and   *)
(* threshold parameters by the initial state (kept in cfg), the generation *)
(* and the load list by each call.                                         *)
(***************************************************************************)
\* Generation values [ckW]: negative, zero, scarce, ample.
AllocPvValues == {-50, 0, 40, 100, 400}

\* solar_margin (percent), high_power_solar_factor (tenths), high_power_min_kw.
AllocMargins == {0, 15, 120}
AllocFactors == {6, 10}
AllocMinKw == {25, 80}

\* The load descriptors an allocator call draws from; kitchen 20 and hall 20
\* have equal keys, and so have kitchen 90 and pump 90 once 90 reaches
\* high_power_min_kw.
AllocPool ==
    { Load("kitchen", 20, TRUE, FALSE, <<80>>),
      Load("kitchen", 90, TRUE, FALSE, <<80>>),
      Load("kitchen", 120, TRUE, FALSE, <<80>>),
      Load("hall", 20, TRUE, FALSE, <<>>),
      Load("hall", 30, TRUE, FALSE, <<>>),
      Load("hall", 20, FALSE, FALSE, <<>>),
      Load("pump", 90, TRUE, TRUE, <<>>),
      Load("pump", 90, FALSE, TRUE, <<>>) }

\* Lists of two loads of one class and a high-power load, in every order.
AllocTriples ==
    { s \in LoadLists({ Load("kitchen", 20, TRUE, FALSE, <<80>>),
                        Load("hall", 30, TRUE, FALSE, <<>>),
                        Load("pump", 90, TRUE, TRUE, <<>>) }, 3) : Len(s) = 3 }

AllocInputs == LoadLists(AllocPool, MaxLoads) \cup AllocTriples

InitAlloc ==
    /\ cfg \in { NewController(1, 60, 30, m, f, k) :
                 m \in AllocMargins, f \in AllocFactors, k \in AllocMinKw }
    /\ step_index = 0
    /\ state = EmptyDict
    /\ force_grid_until_step = EmptyDict
    /\ call = NoCall
    /\ hist = NoHist
    /\ battery = IdleBattery
    /\ bop = NoOp
    /\ drv = IdleDriver

\* allocate_sources_for_step(pv, loads, ...): a call of the pure function.
\* The function reads and writes nothing but its arguments and its result,
\* so a behaviour makes one call.
Allocate(pv, loads) ==
    /\ call.kind = "none"
    /\ call' = [NoCall EXCEPT !.kind = "allocate", !.pv = pv, !.loads = loads,
                    !.loads_after = LoadsAfterCall(loads),
                    !.suggested = allocate_sources_for_step(pv, loads,
                        cfg.solar_margin, cfg.high_power_solar_factor,
                        cfg.high_power_min_kw)]
    /\ UNCHANGED <<cfg, step_index, state, force_grid_until_step, hist,
                   battery, bop, drv>>

NextAlloc == \E pv \in AllocPvValues, loads \in AllocInputs : Allocate(pv, loads)

SpecAlloc == InitAlloc /\ [][NextAlloc]_vars

\* C6: allocate_sources_for_step assigns GRID to every load whose
\* can_run_on_solar is false, for every available generation (positive, zero
\* or negative), every combination of other loads and every margin and
\* threshold parameter.
C6_GridOnlyStaysOnGrid ==
    call.kind = "allocate" =>
        \A i \in 1..Len(call.loads) :
            ~call.loads[i].can_run_on_solar
                => call.suggested[call.loads[i].name] = "GRID"

\* C6's case: ample generation, a grid-only load that would fit the budget
\* and is placed on GRID next to a load that is placed on SOLAR.
C6_Witness ==
    /\ call.kind = "allocate"
    /\ call.pv > 0
    /\ \E i, j \in 1..Len(call.loads) :
        /\ ~call.loads[i].can_run_on_solar
        /\ call.loads[i].power_kw * 100 <= PvRemaining100(call.pv, cfg.solar_margin)
        /\ call.suggested[call.loads[i].name] = "GRID"
        /\ call.suggested[call.loads[j].name] = "SOLAR"

\* The allocator's result for the arguments of the last call with another
\* load list.
AllocateWith(loads) ==
    allocate_sources_for_step(call.pv, loads, cfg.solar_margin,
                              cfg.high_power_solar_factor, cfg.high_power_min_kw)

\* a and b have the same (effective_high_power, power_kw) key.
SameKey(a, b) ==
    /\ effective_high_power(a, cfg.high_power_min_kw)
           = effective_high_power(b, cfg.high_power_min_kw)
    /\ a.power_kw = b.power_kw

\* The list with the loads at positions i and j exchanged.
SwapLoads(loads, i, j) ==
    [k \in 1..Len(loads) |->
        IF k = i THEN loads[j] ELSE IF k = j THEN loads[i] ELSE loads[k]]

\* C12: two loads that can run on solar and have identical
\* (effective_high_power, power_kw) keys are considered in input order: when
\* the budget admits only one of them (their sources differ), the earlier one
\* gets SOLAR and the later one GRID, and with their input positions swapped
\* the two sources are swapped.
C12_TiesInInputOrder ==
    call.kind = "allocate" =>
        \A i, j \in 1..Len(call.loads) :
            (/\ i < j
             /\ call.loads[i].can_run_on_solar
             /\ call.loads[j].can_run_on_solar
             /\ SameKey(call.loads[i], call.loads[j])
             /\ call.suggested[call.loads[i].name] # call.suggested[call.loads[j].name])
                => /\ call.suggested[call.loads[i].name] = "SOLAR"
                   /\ call.suggested[call.loads[j].name] = "GRID"
                   /\ AllocateWith(SwapLoads(call.loads, i, j))[call.loads[i].name] = "GRID"
                   /\ AllocateWith(SwapLoads(call.loads, i, j))[call.loads[j].name] = "SOLAR"

\* C12's case: two loads of 0.9 kW, one flagged high power and one that is
\* high power only by reaching high_power_min_kw, with a budget for one of
\* them; the first of the list is the one on SOLAR.
C12_Witness ==
    /\ call.kind = "allocate"
    /\ Len(call.loads) >= 2
    /\ call.loads[1].can_run_on_solar
    /\ call.loads[2].can_run_on_solar
    /\ call.loads[1].is_high_power # call.loads[2].is_high_power
    /\ SameKey(call.loads[1], call.loads[2])
    /\ call.suggested[call.loads[1].name] = "SOLAR"
    /\ call.suggested[call.loads[2].name] = "GRID"

\* The reference algorithm, over positions of the load list.  Position i
\* comes before position j in the walk: smaller key, or equal keys and i
\* earlier in the input.
RefPrecedes(loads, i, j, min_kw) ==
    LET hi == IF loads[i].is_high_power \/ loads[i].power_kw >= min_kw THEN 1 ELSE 0
        hj == IF loads[j].is_high_power \/ loads[j].power_kw >= min_kw THEN 1 ELSE 0
    IN  \/ hi < hj
        \/ hi = hj /\ loads[i].power_kw < loads[j].power_kw
        \/ hi = hj /\ loads[i].power_kw = loads[j].power_kw /\ i < j

\* The positions assigned SOLAR: todo are the solar-eligible positions still
\* to walk, rem100 is 100 * remaining, solar the positions assigned so far.
RECURSIVE RefWalk(_, _, _, _, _, _)
RefWalk(loads, todo, rem100, factor10, min_kw, solar) ==
    IF todo = {} THEN solar
    ELSE LET i == CHOOSE k \in todo :
                      \A j \in todo \ {k} : RefPrecedes(loads, k, j, min_kw)
             high == loads[i].is_high_power \/ loads[i].power_kw >= min_kw
             fits == /\ rem100 > 0
                     /\ IF high
                        THEN loads[i].power_kw * 1000 <= rem100 * factor10
                        ELSE loads[i].power_kw * 100 <= rem100
         IN  IF fits
             THEN RefWalk(loads, todo \ {i}, rem100 - 100 * loads[i].power_kw,
                          factor10, min_kw, solar \cup {i})
             ELSE RefWalk(loads, todo \ {i}, rem100, factor10, min_kw, solar)

\* The reference result for a list with pairwise distinct names.
RefAllocate(available_kw, loads, margin_pct, factor10, min_kw) ==
    LET eligible == {i \in 1..Len(loads) : loads[i].can_run_on_solar}
        start == IF available_kw * (100 - margin_pct) > 0
                 THEN available_kw * (100 - margin_pct) ELSE 0
        solar == IF available_kw <= 0 THEN {}
                 ELSE RefWalk(loads, eligible, start, factor10, min_kw, {})
    IN  [n \in NamesOf(loads) |->
            IF \E i \in solar : loads[i].name = n THEN "SOLAR" ELSE "GRID"]

\* C13: for every input over the bounded sets, allocate_sources_for_step
\* returns the result of the reference algorithm: all GRID when the
\* generation is <= 0; otherwise remaining starts at
\* max(available * (1 - margin), 0), the loads that can run on solar are
\* walked in ascending (effective_high_power, power_kw) order, an effectively
\* high-power load gets SOLAR iff remaining > 0 and
\* power <= remaining * factor, any other load iff remaining > 0 and
\* power <= remaining, and remaining is decremented by the power of each
\* load put on SOLAR.  Example: available 1.0, margin 0.15, factor 0.6, loads
\* A (0.2, not high) and B (0.9, high) give A SOLAR and B GRID.
C13_MatchesReferenceAlgorithm ==
    /\ call.kind = "allocate" =>
           call.suggested = RefAllocate(call.pv, call.loads, cfg.solar_margin,
                                        cfg.high_power_solar_factor,
                                        cfg.high_power_min_kw)
    /\ allocate_sources_for_step(100, << Load("A", 20, TRUE, FALSE, <<>>),
                                         Load("B", 90, TRUE, TRUE, <<>>) >>,
                                 15, 6, 80)
           = [n \in {"A", "B"} |-> IF n = "A" THEN "SOLAR" ELSE "GRID"]

\* C13's case: the example as a call (generation 1.0, margin 0.15, factor
\* 0.6, a 0.2 kW load and a 0.9 kW high-power load given in the reverse
\* order): the small load on SOLAR, and the high-power load on GRID although
\* it would fit the remaining 0.65 kW without the factor.
C13_Witness ==
    /\ call.kind = "allocate"
    /\ call.pv = 100
    /\ cfg.solar_margin = 15
    /\ cfg.high_power_solar_factor = 6
    /\ Len(call.loads) = 2
    /\ call.loads[1].power_kw = 90 /\ call.loads[1].is_high_power
    /\ call.loads[1].can_run_on_solar
    /\ call.loads[2].power_kw = 20 /\ call.loads[2].can_run_on_solar
    /\ call.suggested[call.loads[1].name] = "GRID"
    /\ call.suggested[call.loads[2].name] = "SOLAR"

RECURSIVE SolarPower100(_, _)
SolarPower100(allocation, loads) ==
    IF loads = <<>> THEN 0
    ELSE (IF allocation[Head(loads).name] = "SOLAR" THEN Head(loads).power_kw * 100
          ELSE 0)
         + SolarPower100(allocation, Tail(loads))

\* The values pv_remaining takes in the loop over the sorted loads, one per
\* iteration, rem100 being the value before the loop.
RECURSIVE RemainingDuringWalk(_, _, _, _)
RemainingDuringWalk(sorted, rem100, factor10, high_power_min_kw) ==
    IF sorted = <<>> THEN <<>>
    ELSE LET after == IF FitsSolar(Head(sorted), rem100, factor10, high_power_min_kw)
                      THEN rem100 - Head(sorted).power_kw * 100
                      ELSE rem100
         IN  <<after>> \o RemainingDuringWalk(Tail(sorted), after, factor10,
                                              high_power_min_kw)

\* The values of pv_remaining in the last allocator call.
RemainingOfCall ==
    IF call.pv <= 0 THEN <<>>
    ELSE RemainingDuringWalk(
             SortedStable(SolarEligible(call.loads), cfg.high_power_min_kw),
             PvRemaining100(call.pv, cfg.solar_margin),
             cfg.high_power_solar_factor, cfg.high_power_min_kw)

\* C28: for every allocate_sources_for_step call with loads of non-negative
\* power, solar_margin in [0,1] and high_power_solar_factor in [0,1], the
\* summed power_kw of the loads assigned SOLAR does not exceed
\* max(available_kw * (1 - solar_margin), 0), and the running remaining
\* budget never becomes negative.
C28_AllocationWithinBudget ==
    ( /\ call.kind = "allocate"
      /\ cfg.solar_margin \in 0..100
      /\ cfg.high_power_solar_factor \in 0..10
      /\ \A i \in 1..Len(call.loads) : call.loads[i].power_kw >= 0 )
    => /\ SolarPower100(call.suggested, call.loads)
              <= Max(call.pv * (100 - cfg.solar_margin), 0)
       /\ \A k \in 1..Len(RemainingOfCall) : RemainingOfCall[k] >= 0

\* C28's case: with a margin of 15 % the budget is used up by one load, and
\* a second load that would fit the whole budget alone is left on GRID.
C28_Witness ==
    /\ call.kind = "allocate"
    /\ cfg.solar_margin = 15
    /\ cfg.high_power_solar_factor \in 0..10
    /\ \E i, j \in 1..Len(call.loads) :
        /\ call.suggested[call.loads[i].name] = "SOLAR"
        /\ call.suggested[call.loads[j].name] = "GRID"
        /\ FitsSolar(call.loads[j], PvRemaining100(call.pv, cfg.solar_margin),
                     cfg.high_power_solar_factor, cfg.high_power_min_kw)
        /\ call.loads[j].can_run_on_solar
    /\ SolarPower100(call.suggested, call.loads) > 0
    /\ \E k \in 1..Len(RemainingOfCall) :
           RemainingOfCall[k] < PvRemaining100(call.pv, cfg.solar_margin)

\* The mapping decide() returned, the loads held by hysteresis taken off
\* SOLAR.
ReturnedWithoutHeld ==
    [n \in DOMAIN call.final |->
        IF HeldByHysteresis(n) THEN "GRID" ELSE call.final[n]]

\* 100 times the usable generation of the last call.
UsableOfCall == Max(call.pv * (100 - cfg.solar_margin), 0)

\* C27 as stated: for every decide() call in any reachable controller state,
\* with loads of non-negative power and high_power_solar_factor <= 1, the
\* summed power_kw of the loads returned as SOLAR does not exceed the usable
\* generation max(available_kw * (1 - solar_margin), 0) of that step.
C27_ReturnedSolarWithinUsable ==
    (call.kind = "decide" /\ cfg.high_power_solar_factor <= 10)
        => SolarPower100(call.final, call.loads) <= UsableOfCall

\* C27, amended: the summed power_kw of the loads returned as SOLAR, those
\* held on SOLAR by hysteresis left out, does not exceed the usable
\* generation of the step; a load returned as SOLAR against the allocator's
\* suggestion was on SOLAR for fewer than min_hold_steps steps.
C27_UnheldSolarWithinUsable ==
    (call.kind = "decide" /\ cfg.high_power_solar_factor <= 10)
        => /\ SolarPower100(ReturnedWithoutHeld, call.loads) <= UsableOfCall
           /\ \A n \in NamesOf(call.loads) :
                (call.final[n] = "SOLAR" /\ call.suggested[n] # "SOLAR")
                    => /\ n \in DOMAIN call.prev_state
                       /\ call.prev_state[n].source = "SOLAR"
                       /\ call.prev_state[n].steps < cfg.min_hold_steps

\* C27's case: a call returns more power on SOLAR than the usable generation,
\* one load being held on SOLAR and another put on SOLAR by the allocator.
C27_Witness ==
    /\ call.kind = "decide"
    /\ SolarPower100(call.final, call.loads) > UsableOfCall
    /\ SolarPower100(ReturnedWithoutHeld, call.loads) > 0
    /\ \E n \in NamesOf(call.loads) :
           HeldByHysteresis(n) /\ call.final[n] = "SOLAR"

\* The loads of the last call that are not of the high-power class.
NotHighPower(loads) ==
    SelectSeq(loads, LAMBDA l : ~effective_high_power(l, cfg.high_power_min_kw))

\* a and b can run on solar and are of the same effective-high-power class.
SameClassEligible(a, b) ==
    /\ a.can_run_on_solar
    /\ b.can_run_on_solar
    /\ effective_high_power(a, cfg.high_power_min_kw)
           = effective_high_power(b, cfg.high_power_min_kw)

\* C33: in allocate_sources_for_step with available_kw > 0, among
\* solar-eligible loads of the same effective-high-power class the SOLAR
\* assignment prefers smaller loads: if a load is assigned SOLAR, every load
\* of that class with strictly smaller power_kw is also assigned SOLAR; and
\* the assignment of every non-high-power load is the same whether or not
\* high-power loads are present in the list.
C33_SmallerLoadsFirst ==
    (call.kind = "allocate" /\ call.pv > 0) =>
        /\ \A i, j \in 1..Len(call.loads) :
            ( /\ SameClassEligible(call.loads[i], call.loads[j])
              /\ call.loads[j].power_kw < call.loads[i].power_kw
              /\ call.suggested[call.loads[i].name] = "SOLAR" )
            => call.suggested[call.loads[j].name] = "SOLAR"
        /\ \A n \in NamesOf(NotHighPower(call.loads)) :
            AllocateWith(NotHighPower(call.loads))[n] = call.suggested[n]

\* C33's case: two loads of one class, the smaller on SOLAR and the larger on
\* GRID, in a list that also has a high-power load that can run on solar.
C33_Witness ==
    /\ call.kind = "allocate"
    /\ call.pv > 0
    /\ \E i, j \in 1..Len(call.loads) :
        /\ SameClassEligible(call.loads[i], call.loads[j])
        /\ call.loads[j].power_kw < call.loads[i].power_kw
        /\ call.suggested[call.loads[j].name] = "SOLAR"
        /\ call.suggested[call.loads[i].name] = "GRID"
    /\ \E k \in 1..Len(call.loads) :
        /\ effective_high_power(call.loads[k], cfg.high_power_min_kw)
        /\ call.loads[k].can_run_on_solar
    /\ NotHighPower(call.loads) # <<>>

(***************************************************************************)
(* The battery on its own: SpecBattery.                                    *)
(***************************************************************************)
\* soc_initial_kwh as a percentage of the capacity, in and out of range.
BatterySocPct == {-50, 10, 50, 150}

\* max_charge_kw and max_discharge_kw [ckW].
PowerLimits == {0, 80}

InitBattery ==
    /\ cfg = NewController(2, StepMinutes * 60, 30, DefaultMarginPct,
                           DefaultFactor10, DefaultHighPowerMinKw)
    /\ step_index = 0
    /\ state = EmptyDict
    /\ force_grid_until_step = EmptyDict
    /\ call = NoCall
    /\ hist = NoHist
    /\ battery \in { NewBattery(SmallCapacity, (SmallCapacity * pct) \div 100, mc, md) :
                     pct \in BatterySocPct, mc \in PowerLimits, md \in PowerLimits }
    /\ bop = NoOp
    /\ drv = IdleDriver

\* battery.charge(available_kw, dt_hours)
Charge(available_kw) ==
    /\ bop.n < MaxOps
    /\ \E r \in {BatteryCharge(battery, available_kw)} :
        /\ battery' = r.battery
        /\ bop' = [op |-> "charge", requested |-> available_kw, power |-> r.power,
                   soc_before |-> battery.soc_kwh, n |-> bop.n + 1]
    /\ UNCHANGED <<ctlVars, drv>>

\* battery.discharge(required_kw, dt_hours)
Discharge(required_kw) ==
    /\ bop.n < MaxOps
    /\ \E r \in {BatteryDischarge(battery, required_kw)} :
        /\ battery' = r.battery
        /\ bop' = [op |-> "discharge", requested |-> required_kw, power |-> r.power,
                   soc_before |-> battery.soc_kwh, n |-> bop.n + 1]
    /\ UNCHANGED <<ctlVars, drv>>

NextBattery ==
    \/ \E a \in RequestValues : Charge(a)
    \/ \E r \in RequestValues : Discharge(r)

SpecBattery == InitBattery /\ [][NextBattery]_vars

\* C3: from a Battery constructed with a positive capacity, after any
\* sequence of charge and discharge calls with arbitrary requested powers,
\* 0 <= soc_kwh <= capacity_kwh, the operations being the only writers of
\* soc_kwh.
C3_SocWithinCapacity ==
    /\ 0 <= battery.soc_kwh
    /\ battery.soc_kwh <= battery.capacity_kwh

\* C3's case: a charge whose energy exceeds the remaining room, after an
\* earlier operation, fills the battery exactly.
C3_Witness ==
    /\ bop.op = "charge"
    /\ bop.n >= 2
    /\ bop.soc_before < battery.capacity_kwh
    /\ Min(bop.requested, battery.max_charge_kw) * StepMinutes * EffNum * EffNum
           > battery.capacity_kwh - bop.soc_before
    /\ battery.soc_kwh = battery.capacity_kwh

\* C17: the power a Battery operation returns is the power actually absorbed
\* or delivered: after charge returns p, soc_kwh has grown by exactly
\* p * dt_hours * eff_charge, and after discharge returns p, soc_kwh has
\* shrunk by exactly p * dt_hours / eff_discharge, in the uncapped and in the
\* capped branch.  (One ckW for one step charges StepMinutes * EffNum^2 and
\* draws StepMinutes * EffDen^2 energy units, and p is in units of
\* 1 / PowerScale ckW: p for one step charges p / EffDen^2 and draws
\* p / EffNum^2 energy units.)
C17_ReturnedPowerIsEnergyMoved ==
    /\ bop.op = "charge" =>
           (battery.soc_kwh - bop.soc_before) * EffDen * EffDen = bop.power
    /\ bop.op = "discharge" =>
           (bop.soc_before - battery.soc_kwh) * EffNum * EffNum = bop.power

\* C17's case: a discharge cut short by the stored energy empties the
\* battery and returns a positive power below the requested one.
C17_Witness ==
    /\ bop.op = "discharge"
    /\ bop.n >= 2
    /\ bop.soc_before > 0
    /\ Min(bop.requested, battery.max_discharge_kw) * StepMinutes * EffDen * EffDen
           > bop.soc_before
    /\ battery.soc_kwh = 0
    /\ bop.power > 0
    /\ bop.power < Min(bop.requested, battery.max_discharge_kw) * PowerScale

\* The power limit of the last operation.
LimitOfOp == IF bop.op = "charge" THEN battery.max_charge_kw ELSE battery.max_discharge_kw

\* The energy of the last operation at power p [ckW] for the whole step.
EnergyOfOp(p) ==
    IF bop.op = "charge" THEN p * StepMinutes * EffNum * EffNum
    ELSE p * StepMinutes * EffDen * EffDen

\* The headroom (charge) or the stored energy (discharge) before the last
\* operation is enough for power p for the whole step.
SufficesFor(p) ==
    IF bop.op = "charge" THEN EnergyOfOp(p) <= battery.capacity_kwh - bop.soc_before
    ELSE EnergyOfOp(p) <= bop.soc_before

\* The example: capacity 2.0, soc 1.0, max_discharge 0.8, discharge(1.0, 1/60)
\* returns 0.8.
DischargeExample ==
    BatteryDischarge(NewBattery(200 * EnergyScale, 100 * EnergyScale, 80, 80), 100).power
        = 80 * PowerScale

\* C18 as stated: charge(a, dt) returns p with 0 <= p <= min(a, max_charge_kw)
\* and discharge(r, dt) returns p with 0 <= p <= min(r, max_discharge_kw); p
\* equals that minimum whenever the headroom or the stored energy suffices
\* for the whole step.
C18_ReturnedPowerWithinRequest ==
    /\ bop.op \in {"charge", "discharge"} =>
           /\ 0 <= bop.power
           /\ bop.power <= Min(bop.requested, LimitOfOp) * PowerScale
           /\ SufficesFor(Min(bop.requested, LimitOfOp))
                  => bop.power = Min(bop.requested, LimitOfOp) * PowerScale
    /\ DischargeExample

\* C18 amended: the same for a requested power a >= 0 (r >= 0); for a
\* negative requested power the operation returns 0.
C18_ReturnedPowerWithinNonNegativeRequest ==
    /\ (bop.op \in {"charge", "discharge"} /\ bop.requested >= 0) =>
           /\ 0 <= bop.power
           /\ bop.power <= Min(bop.requested, LimitOfOp) * PowerScale
           /\ SufficesFor(Min(bop.requested, LimitOfOp))
                  => bop.power = Min(bop.requested, LimitOfOp) * PowerScale
    /\ (bop.op \in {"charge", "discharge"} /\ bop.requested < 0) => bop.power = 0
    /\ DischargeExample

\* C18's case: a discharge request above the power limit with enough energy
\* stored returns the limit; the battery keeps the rest.
C18_Witness ==
    /\ bop.op = "discharge"
    /\ bop.requested > battery.max_discharge_kw
    /\ battery.max_discharge_kw > 0
    /\ SufficesFor(battery.max_discharge_kw)
    /\ bop.power = battery.max_discharge_kw * PowerScale
    /\ battery.soc_kwh > 0

(***************************************************************************)
(* Construction: SpecConfig.  The controller and the battery are           *)
(* constructed by actions, from configurations that are valid or not, and  *)
(* then used.  cfg and battery hold NotConstructed before the constructor  *)
(* has run and Raised(e) when it raised e, in which case there is no       *)
(* instance.                                                               *)
(***************************************************************************)
NotConstructed == [constructed |-> FALSE, raised |-> "none"]

Raised(e) == [constructed |-> FALSE, raised |-> e]

\* cfg holds a SwitchingController's configuration.
IsController(c) == "min_hold_steps" \in DOMAIN c

\* b holds a Battery.
IsBattery(b) == "capacity_kwh" \in DOMAIN b

\* SwitchingController(...): cooldown_seconds // step_seconds raises
\* ZeroDivisionError when step_seconds is 0; nothing else is tested.
ControllerNew(min_hold, step_seconds, cooldown_seconds, margin_pct, factor10, min_kw) ==
    IF step_seconds = 0 THEN Raised("ZeroDivisionError")
    ELSE NewController(min_hold, step_seconds, cooldown_seconds, margin_pct,
                       factor10, min_kw)

\* decide() calls per controller in SpecConfig.
MaxConfigSteps == 1

\* step_seconds and solar_margin (percent) of the constructed controllers.
ConfigStepSeconds == {0, 60}
ConfigMargins == {-50, 15}

\* capacity_kwh and soc_initial_kwh of the constructed batteries.
ConfigCapacities == {0 - EnergyScale, 0, SmallCapacity}
ConfigSocInitial == {0, EnergyScale}

\* The load lists of the calls in SpecConfig.
ConfigInputs == { <<l>> : l \in LoadPool }

InitConfig ==
    /\ cfg = NotConstructed
    /\ step_index = 0
    /\ state = EmptyDict
    /\ force_grid_until_step = EmptyDict
    /\ call = NoCall
    /\ hist = NoHist
    /\ battery = NotConstructed
    /\ bop = NoOp
    /\ drv = IdleDriver

\* SwitchingController(min_hold_steps=2, step_seconds=..., cooldown_seconds=30,
\*                     solar_margin=...)
ConstructController(step_seconds, margin_pct) ==
    /\ cfg = NotConstructed
    /\ cfg' = ControllerNew(2, step_seconds, 30, margin_pct, DefaultFactor10,
                            DefaultHighPowerMinKw)
    /\ UNCHANGED <<step_index, state, force_grid_until_step, call, hist,
                   battery, bop, drv>>

\* Battery(capacity_kwh, soc_initial_kwh, 0.8, 0.8)
ConstructBattery(capacity, soc_initial) ==
    /\ battery = NotConstructed
    /\ battery' = NewBattery(capacity, soc_initial, 80, 80)
    /\ UNCHANGED <<ctlVars, bop, drv>>

\* decide(pv_power_kw, loads) on the constructed controller.
DecideConfigured(pv, loads) ==
    /\ IsController(cfg)
    /\ step_index < MaxConfigSteps
    /\ ControllerDecides(pv, loads)
    /\ UNCHANGED <<battery, bop, drv>>

\* battery.charge(available_kw, dt_hours) on the constructed battery.
ChargeConfigured(available_kw) == IsBattery(battery) /\ Charge(available_kw)

\* battery.discharge(required_kw, dt_hours) on the constructed battery.
DischargeConfigured(required_kw) == IsBattery(battery) /\ Discharge(required_kw)

NextConfig ==
    \/ \E ss \in ConfigStepSeconds, m \in ConfigMargins : ConstructController(ss, m)
    \/ \E c \in ConfigCapacities, s \in ConfigSocInitial : ConstructBattery(c, s)
    \/ \E pv \in PvValues, loads \in ConfigInputs : DecideConfigured(pv, loads)
    \/ \E a \in RequestValues : ChargeConfigured(a)
    \/ \E r \in RequestValues : DischargeConfigured(r)

SpecConfig == InitConfig /\ [][NextConfig]_vars

\* C16 as stated: construction with an invalid configuration fails: no
\* Battery with capacity_kwh <= 0 and no SwitchingController with
\* step_seconds = 0 or a negative solar_margin exists.
C16_InvalidConfigurationRejected ==
    /\ IsBattery(battery) => battery.capacity_kwh > 0
    /\ IsController(cfg) => (cfg.step_seconds # 0 /\ cfg.solar_margin >= 0)

\* C19: charge returns 0 and leaves soc_kwh unchanged when available_kw <= 0
\* or capacity_kwh <= 0, and discharge returns 0 and leaves soc_kwh unchanged
\* when required_kw <= 0 or capacity_kwh <= 0.
C19_DegenerateCallsDoNothing ==
    (/\ bop.op \in {"charge", "discharge"}
     /\ (bop.requested <= 0 \/ battery.capacity_kwh <= 0))
        => /\ bop.power = 0
           /\ battery.soc_kwh = bop.soc_before

\* C19's case: a positive power required from a battery constructed with a
\* negative capacity, after an earlier operation on it.
C19_Witness ==
    /\ bop.op = "discharge"
    /\ bop.n >= 2
    /\ bop.requested > 0
    /\ battery.capacity_kwh < 0
    /\ bop.power = 0
    /\ battery.soc_kwh = bop.soc_before

(***************************************************************************)
(* Two installations: SpecTwo.  Two SwitchingController instances and two  *)
(* Battery instances, used in any interleaving.  An instance's _state and  *)
(* _force_grid_until_step are dict objects: state and                      *)
(* force_grid_until_step are here the heap of these objects (reference to  *)
(* dict) and cfg holds, per instance, the configuration and the two        *)
(* references __init__ stored.  _step_index and the battery's fields are   *)
(* numbers, held per instance.  hist holds the number of calls so far and, *)
(* per instance, the controller and the battery that received the          *)
(* instance's own calls alone, in the same order.                          *)
(***************************************************************************)
Instances == {1, 2}

\* Calls (decide, charge, discharge) on the two installations together.
MaxTwoCalls == 4

\* One dict for every instance.
StateRefShared(i) == 1

\* self._state = {}: a new dict object for each instance.
StateRef(i) == i

\* self._force_grid_until_step = {}: a new dict object for each instance.
ForceRef(i) == i

\* SwitchingController(...): the instance's attributes.
NewInstance(i, c) == [config |-> c, state_ref |-> StateRef(i), force_ref |-> ForceRef(i)]

\* The controller and the battery of an installation run alone.
AloneInit(b) ==
    [step_index |-> 0, state |-> EmptyDict, force |-> EmptyDict, battery |-> b]

\* Generation values, load lists and battery requests of the calls in SpecTwo.
TwoPv == {0, 400}
TwoInputs == { <<l>> : l \in {m \in LoadPool : m.name = "kitchen"} }
TwoCharge == {20}
TwoDischarge == {120}

\* initial soc (percent of the capacity) of the two batteries.
TwoSocPct == <<50, 10>>

InitTwo ==
    /\ cfg = [i \in Instances |->
                 NewInstance(i, NewController(2, 60, 30, DefaultMarginPct,
                                              DefaultFactor10, DefaultHighPowerMinKw))]
    /\ step_index = [i \in Instances |-> 0]
    /\ state = [r \in {StateRef(i) : i \in Instances} |-> EmptyDict]
    /\ force_grid_until_step = [r \in {ForceRef(i) : i \in Instances} |-> EmptyDict]
    /\ battery = [i \in Instances |->
                     NewBattery(SmallCapacity, (SmallCapacity * TwoSocPct[i]) \div 100,
                                80, 80)]
    /\ call = [kind |-> "none", inst |-> 0, pv |-> 0, loads |-> <<>>,
               final |-> EmptyDict, alone_final |-> EmptyDict]
    /\ bop = [op |-> "none", inst |-> 0, requested |-> 0, power |-> 0,
              alone_power |-> 0]
    /\ hist = [n |-> 0, alone |-> [i \in Instances |-> AloneInit(battery[i])]]
    /\ drv = IdleDriver

\* decide(pv_power_kw, loads) on controller i.
DecideOn(i, pv, loads) ==
    /\ hist.n < MaxTwoCalls
    /\ \E r \in {DecideResult(cfg[i].config, step_index[i], state[cfg[i].state_ref],
                              force_grid_until_step[cfg[i].force_ref], pv, loads)},
          a \in {DecideResult(cfg[i].config, hist.alone[i].step_index,
                              hist.alone[i].state, hist.alone[i].force, pv, loads)} :
        /\ step_index' = [step_index EXCEPT ![i] = r.step_index]
        /\ state' = [state EXCEPT ![cfg[i].state_ref] = r.state]
        /\ force_grid_until_step' =
               [force_grid_until_step EXCEPT ![cfg[i].force_ref] = r.force]
        /\ call' = [kind |-> "decide", inst |-> i, pv |-> pv, loads |-> loads,
                    final |-> r.final, alone_final |-> a.final]
        /\ hist' = [n |-> hist.n + 1,
                    alone |-> [hist.alone EXCEPT ![i].step_index = a.step_index,
                                                 ![i].state = a.state,
                                                 ![i].force = a.force]]
    /\ UNCHANGED <<cfg, battery, bop, drv>>

\* battery.charge(available_kw, dt_hours) on battery i.
ChargeOn(i, available_kw) ==
    /\ hist.n < MaxTwoCalls
    /\ \E r \in {BatteryCharge(battery[i], available_kw)},
          a \in {BatteryCharge(hist.alone[i].battery, available_kw)} :
        /\ battery' = [battery EXCEPT ![i] = r.battery]
        /\ bop' = [op |-> "charge", inst |-> i, requested |-> available_kw,
                   power |-> r.power, alone_power |-> a.power]
        /\ hist' = [n |-> hist.n + 1,
                    alone |-> [hist.alone EXCEPT ![i].battery = a.battery]]
    /\ UNCHANGED <<cfg, step_index, state, force_grid_until_step, call, drv>>

\* battery.discharge(required_kw, dt_hours) on battery i.
DischargeOn(i, required_kw) ==
    /\ hist.n < MaxTwoCalls
    /\ \E r \in {BatteryDischarge(battery[i], required_kw)},
          a \in {BatteryDischarge(hist.alone[i].battery, required_kw)} :
        /\ battery' = [battery EXCEPT ![i] = r.battery]
        /\ bop' = [op |-> "discharge", inst |-> i, requested |-> required_kw,
                   power |-> r.power, alone_power |-> a.power]
        /\ hist' = [n |-> hist.n + 1,
                    alone |-> [hist.alone EXCEPT ![i].battery = a.battery]]
    /\ UNCHANGED <<cfg, step_index, state, force_grid_until_step, call, drv>>

NextTwo ==
    \/ \E i \in Instances, pv \in TwoPv, loads \in TwoInputs : DecideOn(i, pv, loads)
    \/ \E i \in Instances, a \in TwoCharge : ChargeOn(i, a)
    \/ \E i \in Instances, r \in TwoDischarge : DischargeOn(i, r)

SpecTwo == InitTwo /\ [][NextTwo]_vars

\* C23: two SwitchingController instances, and two Battery instances, share
\* no mutable state: in any interleaving of decide(), charge and discharge
\* calls on the two, each instance's outputs and state are those of the
\* instance run alone with its own calls in the same order.
C23_InstancesIndependent ==
    /\ \A i \in Instances :
        /\ step_index[i] = hist.alone[i].step_index
        /\ state[cfg[i].state_ref] = hist.alone[i].state
        /\ force_grid_until_step[cfg[i].force_ref] = hist.alone[i].force
        /\ battery[i] = hist.alone[i].battery
    /\ call.final = call.alone_final
    /\ bop.power = bop.alone_power

\* C23's case: controller 2 has just returned SOLAR for the load that
\* controller 1 holds on GRID, at a step index inside the window this load
\* has on controller 1, and both batteries have been used and differ.
C23_Witness ==
    /\ call.kind = "decide"
    /\ call.inst = 2
    /\ call.final["kitchen"] = "SOLAR"
    /\ "kitchen" \in DOMAIN force_grid_until_step[cfg[1].force_ref]
    /\ step_index[2] <= force_grid_until_step[cfg[1].force_ref]["kitchen"]
    /\ state[cfg[1].state_ref]["kitchen"].source = "GRID"
    /\ state[cfg[2].state_ref]["kitchen"].source = "SOLAR"
    /\ bop.op # "none"
    /\ battery[1].soc_kwh # battery[2].soc_kwh

(***************************************************************************)
(* Step and cooldown lengths: SpecTimed.  The controller is constructed    *)
(* with step_seconds > 0 and cooldown_seconds >= 0 drawn from sets that    *)
(* have cooldowns shorter than, equal to and longer than the step, and a   *)
(* hold of one step, so that only the window can keep a load on GRID.      *)
(***************************************************************************)
\* decide() calls per controller in SpecTimed.
MaxTimedSteps == 3

TimedStepSeconds == {1, 5, 60}
TimedCooldownSeconds == {0, 4, 10, 30, 60, 125}
TimedPv == {0, 400}
TimedInputs ==
    LoadLists({ l \in LoadPool : l.name = "kitchen" \/ l.can_run_on_solar }, MaxLoads)

InitTimed ==
    /\ cfg \in { NewController(1, s, c, DefaultMarginPct, DefaultFactor10,
                               DefaultHighPowerMinKw) :
                 s \in TimedStepSeconds, c \in TimedCooldownSeconds }
    /\ step_index = 0
    /\ state = EmptyDict
    /\ force_grid_until_step = EmptyDict
    /\ call = NoCall
    /\ hist = NoHist
    /\ battery = IdleBattery
    /\ bop = NoOp
    /\ drv = IdleDriver

\* decide(pv_power_kw, loads)
DecideTimed(pv, loads) ==
    /\ step_index < MaxTimedSteps
    /\ ControllerDecides(pv, loads)
    /\ UNCHANGED <<battery, bop, drv>>

NextTimed == \E pv \in TimedPv, loads \in TimedInputs : DecideTimed(pv, loads)

SpecTimed == InitTimed /\ [][NextTimed]_vars

\* C34: for every SwitchingController constructed with step_seconds > 0 and
\* cooldown_seconds >= 0, cooldown_steps = max(floor(cooldown_seconds /
\* step_seconds), 1) >= 1, so a spike always forces GRID on the trigger step
\* and at least one further step, also when cooldown_seconds < step_seconds
\* (30 s cooldown with 60 s steps gives cooldown_steps = 1).
C34_CooldownAtLeastOneStep ==
    (cfg.step_seconds > 0 /\ cfg.cooldown_seconds >= 0) =>
        /\ cfg.cooldown_steps >= 1
        /\ cfg.cooldown_steps * cfg.step_seconds <= cfg.cooldown_seconds
               \/ cfg.cooldown_steps = 1
        /\ (cfg.cooldown_steps + 1) * cfg.step_seconds > cfg.cooldown_seconds
        /\ (cfg.step_seconds = 60 /\ cfg.cooldown_seconds = 30) => cfg.cooldown_steps = 1
        /\ call.kind = "decide" =>
               \A n \in NamesOf(call.loads) :
                   (HasSpiked(n) /\ step_index <= hist.last_spike[n] + 1)
                       => call.final[n] = "GRID"

\* C34's case: a cooldown shorter than the step; the load spiked at the
\* previous call, is back under its threshold and suggested SOLAR, and only
\* the window keeps it on GRID.
C34_Witness ==
    /\ call.kind = "decide"
    /\ cfg.cooldown_seconds < cfg.step_seconds
    /\ cfg.cooldown_steps = 1
    /\ \E n \in NamesOf(call.loads) :
        /\ HasSpiked(n)
        /\ step_index = hist.last_spike[n] + 1
        /\ call.suggested[n] = "SOLAR"
        /\ Hysteresis(call.prev_state, n, "SOLAR", cfg.min_hold_steps) = "SOLAR"
        /\ call.final[n] = "GRID"

(***************************************************************************)
(* The battery drivers: SpecDriver.  The initial state is the driver's     *)
(* set-up (the controller and the battery it constructs from its           *)
(* parameters); each action is one iteration of its loop.                  *)
(***************************************************************************)
\* Generation [ckW] and load powers [ckW] of a driver step.
DriverPv == {0, 50, 100}
CircuitKw == {10, 120}
HeavyKw == {0, 150}

\* battery_max_discharge_kw [ckW]: the default 0.8 kW, and 0.1 kW.
DriverMaxDischarge == {10, 80}

\* battery_initial_soc_ratio (percent): the emergency scenario's 10 %, the
\* default 50 %.
DriverSocPct == {10, 50}

\* battery_reserve_ratio = 0.4
ReserveNum == 2
ReserveDen == 5

InitDriver ==
    /\ cfg = NewController(2, StepMinutes * 60, 30, DefaultMarginPct,
                           DefaultFactor10, DefaultHighPowerMinKw)
    /\ step_index = 0
    /\ state = EmptyDict
    /\ force_grid_until_step = EmptyDict
    /\ call = NoCall
    /\ hist = NoHist
    /\ battery \in { NewBattery(SmallCapacity, (SmallCapacity * pct) \div 100, 80, md) :
                     pct \in DriverSocPct, md \in DriverMaxDischarge }
    /\ bop = NoOp
    /\ drv \in { NewDriver(k, ReserveNum, ReserveDen) :
                 k \in {"with_battery", "grid_blackout"} }

\* One iteration of the loop of run_daily_sim_with_battery (and of
\* run_multi_spike_day, whose iteration is the same).
StepWithBattery(pv, loads) ==
    /\ drv.kind = "with_battery"
    /\ drv.steps < MaxDriverSteps
    /\ ControllerDecides(pv, loads)
    /\ \E allocation \in {ReserveOverride(call'.final, loads, pv, battery,
                                          drv.reserve_num, drv.reserve_den)} :
       \E f \in {EnergyFlows(allocation, loads, pv, battery, drv.kind, TRUE)} :
        /\ battery' = f.battery
        /\ drv' = DriverRow(TRUE, allocation, f)
    /\ bop' = bop

\* One iteration of the loop of run_grid_blackout_day; the heavy loads are
\* switched off while the blackout is active.
StepGridBlackout(pv, loads, blackout_active) ==
    /\ drv.kind = "grid_blackout"
    /\ drv.steps < MaxDriverSteps
    /\ ControllerDecides(pv, loads)
    /\ \E allocation \in {BlackoutOverride(
                              ReserveOverride(call'.final, loads, pv, battery,
                                              drv.reserve_num, drv.reserve_den),
                              loads, blackout_active)} :
       \E f \in {EnergyFlows(allocation, loads, pv, battery, drv.kind,
                             ~blackout_active)} :
        /\ battery' = f.battery
        /\ drv' = DriverRow(~blackout_active, allocation, f)
    /\ bop' = bop

NextDriver ==
    \/ \E pv \in DriverPv, b, k \in CircuitKw, g \in HeavyKw :
           StepWithBattery(pv, DriverLoads(b, k, g))
    \/ \E pv \in DriverPv, b, k \in CircuitKw, g \in HeavyKw, blackout \in BOOLEAN :
           StepGridBlackout(pv, DriverLoads(b, k, IF blackout THEN 0 ELSE g), blackout)

SpecDriver == InitDriver /\ [][NextDriver]_vars

(***************************************************************************)
(* Properties of the battery drivers (SpecDriver).                         *)
(***************************************************************************)
\* A step has run; call holds its decide() call and drv its row.
StepDone == drv.steps > 0

\* The loads of the step that can run on solar.
EligibleNames ==
    {call.loads[i].name : i \in {j \in 1..Len(call.loads) : call.loads[j].can_run_on_solar}}

\* The summed power of the step's loads, in fine power units.
RECURSIVE TotalPower(_)
TotalPower(loads) ==
    IF loads = <<>> THEN 0
    ELSE Head(loads).power_kw * PowerScale + TotalPower(Tail(loads))

\* The battery as it was before the step's battery operation.
BatteryBefore == [battery EXCEPT !.soc_kwh = drv.soc_before]

\* soc_kwh >= reserve_ratio * capacity_kwh
AtOrAboveReserve(soc) ==
    soc * drv.reserve_den >= drv.reserve_num * battery.capacity_kwh

\* C4 as stated: in every battery driver, on every step with the grid
\* available, grid_to_load = grid_demand + (deficit - batt_discharge), so the
\* summed power of all loads is gen_to_load + batt_discharge + grid_to_load.
C4_GridServesUncoveredDeficit ==
    (StepDone /\ drv.grid_available) =>
        /\ drv.flows.grid_to_load_kw =
               drv.flows.grid_side_load_kw
                   + (drv.flows.deficit_kw - drv.flows.battery_discharge_kw)
        /\ TotalPower(call.loads) =
               drv.flows.pv_to_load_kw + drv.flows.battery_discharge_kw
                   + drv.flows.grid_to_load_kw

\* C5: on every step of the battery path the reported gen_to_load,
\* gen_to_battery (= batt_charge), pv_wasted, batt_discharge and grid_to_load
\* are >= 0, and generation = gen_to_load + batt_charge + pv_wasted.
C5_FlowsNonNegativeAndPvConserved ==
    StepDone =>
        /\ drv.flows.pv_to_load_kw >= 0
        /\ drv.flows.pv_to_battery_kw >= 0
        /\ drv.flows.pv_to_battery_kw = drv.flows.battery_charge_kw
        /\ drv.flows.pv_wasted_kw >= 0
        /\ drv.flows.battery_discharge_kw >= 0
        /\ drv.flows.grid_to_load_kw >= 0
        /\ call.pv * PowerScale =
               drv.flows.pv_to_load_kw + drv.flows.battery_charge_kw
                   + drv.flows.pv_wasted_kw

\* C5's case: generation split three ways, the charge cut short by the
\* battery's remaining room.
C5_Witness ==
    /\ StepDone
    /\ drv.flows.pv_to_load_kw > 0
    /\ drv.flows.battery_charge_kw > 0
    /\ drv.flows.battery_charge_kw < battery.max_charge_kw * PowerScale
    /\ drv.flows.pv_wasted_kw > 0
    /\ battery.soc_kwh = battery.capacity_kwh

\* C7: on a step with zero generation and the grid available, if the soc
\* ratio read before the step's battery operation is above the reserve ratio
\* every load that can run on solar ends on SOLAR; otherwise every such load
\* ends on GRID and the battery is not discharged in the step.
C7_ReserveRuleAtZeroGeneration ==
    (StepDone /\ call.pv = 0 /\ drv.grid_available) =>
        IF SocRatioAbove(BatteryBefore, drv.reserve_num, drv.reserve_den)
        THEN \A n \in EligibleNames : drv.allocation[n] = "SOLAR"
        ELSE /\ \A n \in EligibleNames : drv.allocation[n] = "GRID"
             /\ drv.flows.battery_discharge_kw = 0
             /\ battery.soc_kwh = drv.soc_before

\* C7's case: the battery at or below the reserve, a load that decide() kept
\* on SOLAR (hysteresis) moved to GRID by the rule.
C7_Witness ==
    /\ StepDone
    /\ call.pv = 0
    /\ drv.grid_available
    /\ ~SocRatioAbove(BatteryBefore, drv.reserve_num, drv.reserve_den)
    /\ drv.soc_before > 0
    /\ \E n \in EligibleNames :
        /\ call.final[n] = "SOLAR"
        /\ drv.allocation[n] = "GRID"

\* C8 as stated: on a step with the grid available, a battery whose soc is at
\* or above reserve_ratio * capacity before the step is not discharged to a
\* soc below reserve_ratio * capacity.
C8_ReservePreserved ==
    (StepDone /\ drv.grid_available /\ AtOrAboveReserve(drv.soc_before))
        => AtOrAboveReserve(battery.soc_kwh)

\* C9: on a step with the grid unavailable every load that can run on solar
\* ends on SOLAR whatever decide() returned, grid_to_load is 0 and the
\* inverter-side deficit gets no grid support.
C9_BlackoutForcesSolarNoGrid ==
    (StepDone /\ ~drv.grid_available) =>
        /\ \A n \in EligibleNames : drv.allocation[n] = "SOLAR"
        /\ drv.flows.grid_to_load_kw = 0
        /\ drv.flows.grid_support_kw = 0

\* C9's case: a blackout step at zero generation with the battery at or below
\* the reserve; a load inside its cooldown window, which decide() and the
\* reserve rule both put on GRID, ends on SOLAR, and part of the deficit is
\* left unserved.
C9_Witness ==
    /\ StepDone
    /\ ~drv.grid_available
    /\ call.pv = 0
    /\ ~SocRatioAbove(BatteryBefore, drv.reserve_num, drv.reserve_den)
    /\ \E n \in EligibleNames :
        /\ n \in call.forced
        /\ call.final[n] = "GRID"
        /\ drv.allocation[n] = "SOLAR"
    /\ drv.flows.deficit_kw > drv.flows.battery_discharge_kw
    /\ drv.flows.grid_to_load_kw = 0

\* C24 as stated: in the battery drivers, on every step with the grid
\* available, a load inside an active spike window (step_index <=
\* force_grid_until_step of its name) has source GRID in the allocation the
\* energy flows are computed from; the night-time reserve rule does not move
\* it to SOLAR.
C24_CooldownSurvivesOverride ==
    (StepDone /\ drv.grid_available) =>
        \A n \in NamesOf(call.loads) \cap DOMAIN force_grid_until_step :
            step_index <= force_grid_until_step[n] => drv.allocation[n] = "GRID"

\* C35: in every battery-path step the battery is never both charged and
\* discharged: batt_charge > 0 implies batt_discharge = 0 and batt_discharge
\* > 0 implies batt_charge = 0, so at most one Battery operation changes
\* soc_kwh per step.
C35_ChargeOrDischargeNotBoth ==
    StepDone =>
        /\ drv.flows.battery_charge_kw > 0 => drv.flows.battery_discharge_kw = 0
        /\ drv.flows.battery_discharge_kw > 0 => drv.flows.battery_charge_kw = 0
        /\ drv.flows.battery_charge_kw > 0 => battery.soc_kwh > drv.soc_before
        /\ drv.flows.battery_discharge_kw > 0 => battery.soc_kwh < drv.soc_before
        /\ (drv.flows.battery_charge_kw = 0 /\ drv.flows.battery_discharge_kw = 0)
               => battery.soc_kwh = drv.soc_before

\* C35's case: a step with generation that covers part of the inverter side
\* only: the battery is discharged for the rest and not charged.
C35_Witness ==
    /\ StepDone
    /\ call.pv > 0
    /\ drv.flows.pv_to_load_kw > 0
    /\ drv.flows.battery_discharge_kw > 0
    /\ drv.flows.battery_charge_kw = 0
    /\ battery.soc_kwh < drv.soc_before

(***************************************************************************)
(* The cloud-shock scenario: SpecCloud.  run_cloud_shock_scenario calls    *)
(* run_daily_sim_with_battery with custom_pv_function =                    *)
(* simulate_pv_with_cloud_shock.  A behaviour runs the loop's iteration of *)
(* minute 0 and then those of the sampled minutes around the shock window  *)
(* (12:00 to 13:00); the generation of an iteration is computed from       *)
(* minute_of_day alone.  The sine of the clear-sky curve is tabulated, in  *)
(* ckW, at the sampled minutes.                                            *)
(***************************************************************************)
\* Iterations per run in SpecCloud.
MaxCloudSteps == 5

\* The sampled values of minute_of_day.
CloudMinutes == <<0, 719, 720, 779, 780>>

\* minute_of_day of the i-th iteration that is run.
MinuteOfSample(i) ==
    IF i <= Len(CloudMinutes) THEN CloudMinutes[i]
    ELSE CloudMinutes[Len(CloudMinutes)] + (i - Len(CloudMinutes)) * StepMinutes

\* 100 * sin((minute_of_day - sunrise) / (sunset - sunrise) * pi), rounded,
\* for pv_peak_kw = 1.0.
ClearSkySine(minute_of_day) ==
    IF minute_of_day \in 719..721 THEN 100
    ELSE IF minute_of_day \in 778..780 THEN 97
    ELSE 96

\* simulate_pv_power_kw(minute_of_day, peak_kw=1.0) [ckW].
simulate_pv_power_kw(minute_of_day) ==
    IF minute_of_day < 6 * 60 \/ minute_of_day > 18 * 60 THEN 0
    ELSE Max(ClearSkySine(minute_of_day), 0)

\* simulate_pv_with_cloud_shock(minute_of_day, peak_kw=1.0), in tenths of a
\* ckW: the clear-sky value, times 0.10 from 12:00 to 13:00.
simulate_pv_with_cloud_shock(minute_of_day) ==
    IF minute_of_day < 6 * 60 \/ minute_of_day > 18 * 60 THEN 0
    ELSE IF 12 * 60 <= minute_of_day /\ minute_of_day < 12 * 60 + 60
         THEN Max(ClearSkySine(minute_of_day), 0)
         ELSE Max(10 * ClearSkySine(minute_of_day), 0)

\* The generation the loop uses at a step [ckW]:
\* pv_power_kw = simulate_pv_power_kw(minute_of_day, peak_kw=pv_peak_kw);
\* the parameter custom_pv_function is not read.
PvOfStep(custom_pv_function, minute_of_day) == simulate_pv_power_kw(minute_of_day)

InitCloud ==
    /\ cfg = NewController(2, StepMinutes * 60, 30, DefaultMarginPct,
                           DefaultFactor10, DefaultHighPowerMinKw)
    /\ step_index = 0
    /\ state = EmptyDict
    /\ force_grid_until_step = EmptyDict
    /\ call = NoCall
    /\ hist = NoHist
    /\ battery = NewBattery(SmallCapacity, SmallCapacity \div 2, 80, 80)
    /\ bop = NoOp
    /\ drv \in { [minute_of_day |-> 0, custom_pv_function |-> f]
                     @@ NewDriver("with_battery", ReserveNum, ReserveDen) :
                 f \in {"None", "simulate_pv_with_cloud_shock"} }

\* One iteration of the loop of run_daily_sim_with_battery.
StepCloud(loads) ==
    /\ drv.steps < MaxCloudSteps
    /\ \E minute_of_day \in {MinuteOfSample(drv.steps + 1)} :
       \E pv \in {PvOfStep(drv.custom_pv_function, minute_of_day)} :
        /\ ControllerDecides(pv, loads)
        /\ \E allocation \in {ReserveOverride(call'.final, loads, pv, battery,
                                              drv.reserve_num, drv.reserve_den)} :
           \E f \in {EnergyFlows(allocation, loads, pv, battery, drv.kind, TRUE)} :
            /\ battery' = f.battery
            /\ drv' = [DriverRow(TRUE, allocation, f)
                           EXCEPT !.minute_of_day = minute_of_day]
    /\ bop' = bop

NextCloud == \E b, k \in CircuitKw : StepCloud(DriverLoads(b, k, 0))

SpecCloud == InitCloud /\ [][NextCloud]_vars

\* C32 as stated: when run_daily_sim_with_battery is called with a
\* custom_pv_function, the generation used at each step for decide() and for
\* the energy flows is that function's value for the step's minute, so that
\* in the cloud-shock scenario the generation between 12:00 and 13:00 is 10 %
\* of the clear-sky value.
C32_CustomPvFunctionUsed ==
    (StepDone /\ drv.custom_pv_function = "simulate_pv_with_cloud_shock") =>
        /\ 10 * call.pv = simulate_pv_with_cloud_shock(drv.minute_of_day)
        /\ 10 * (drv.flows.pv_to_load_kw + drv.flows.pv_to_battery_kw
                 + drv.flows.pv_wasted_kw)
               = simulate_pv_with_cloud_shock(drv.minute_of_day) * PowerScale

(***************************************************************************)
(* Two runs of one scenario: SpecPair.  Two controllers of the same        *)
(* configuration receive the same calls, except that the load named        *)
(* ThresholdLoad has, in the second run, another high_event_threshold_kw.  *)
(* step_index, state and force_grid_until_step hold the two controllers'   *)
(* attributes (run 1, run 2); call holds the two load lists and the two    *)
(* results of the last pair of calls.                                      *)
(***************************************************************************)
Runs == {1, 2}

\* decide() calls per run in SpecPair.
MaxPairSteps == 3

\* The load X whose threshold differs between the runs.
ThresholdLoad == "kitchen"

\* The thresholds of X in the second run: none, and 0.1 kW (every power of X
\* is a spike).
OtherThresholds == { <<>>, <<10>> }

PairPv == {40, 400}

\* The loads of a call: X below and above its first-run threshold, and
\* another load that can run on solar, without a threshold, with a threshold
\* it reaches, or grid-only.
PairPool ==
    { Load("kitchen", 20, TRUE, FALSE, <<80>>),
      Load("kitchen", 120, TRUE, FALSE, <<80>>),
      Load("hall", 30, TRUE, FALSE, <<>>),
      Load("hall", 30, TRUE, FALSE, <<25>>),
      Load("hall", 90, FALSE, TRUE, <<>>) }

PairInputs == LoadLists(PairPool, MaxLoads)

\* The load list of the second run.
WithThreshold(loads, thr) ==
    [i \in 1..Len(loads) |->
        IF loads[i].name = ThresholdLoad
        THEN [loads[i] EXCEPT !.high_event_threshold_kw = thr]
        ELSE loads[i]]

InitPair ==
    /\ cfg \in { NewController(t[1], t[2], t[3], DefaultMarginPct, DefaultFactor10,
                               DefaultHighPowerMinKw) :
                 t \in { <<2, 60, 30>>, <<1, 5, 10>> } }
    /\ step_index = [r \in Runs |-> 0]
    /\ state = [r \in Runs |-> EmptyDict]
    /\ force_grid_until_step = [r \in Runs |-> EmptyDict]
    /\ call = [kind |-> "none", pv |-> 0, loads |-> [r \in Runs |-> <<>>],
               suggested |-> [r \in Runs |-> EmptyDict],
               final |-> [r \in Runs |-> EmptyDict]]
    /\ hist = NoHist
    /\ battery = IdleBattery
    /\ bop = NoOp
    /\ drv = IdleDriver

\* decide(pv_power_kw, loads) in both runs.
DecidePair(pv, loads, thr) ==
    /\ step_index[1] < MaxPairSteps
    /\ \E ls \in {[r \in Runs |-> IF r = 1 THEN loads ELSE WithThreshold(loads, thr)]} :
       \E res \in {[r \in Runs |->
                      DecideResult(cfg, step_index[r], state[r],
                                   force_grid_until_step[r], pv, ls[r])]} :
        /\ step_index' = [r \in Runs |-> res[r].step_index]
        /\ state' = [r \in Runs |-> res[r].state]
        /\ force_grid_until_step' = [r \in Runs |-> res[r].force]
        /\ call' = [kind |-> "decide", pv |-> pv, loads |-> ls,
                    suggested |-> [r \in Runs |-> res[r].suggested],
                    final |-> [r \in Runs |-> res[r].final]]
    /\ UNCHANGED <<cfg, hist, battery, bop, drv>>

NextPair ==
    \E pv \in PairPv, loads \in PairInputs, thr \in OtherThresholds :
        DecidePair(pv, loads, thr)

SpecPair == InitPair /\ [][NextPair]_vars

\* d without its entry of name n.
Without(d, n) == [k \in DOMAIN d \ {n} |-> d[k]]

\* C31: for two Controller runs fed identical step inputs except for the
\* high_event_threshold_kw of one load X (same power_kw for X in both runs),
\* the source returned for every load other than X is identical at every
\* step: forcing X to GRID neither releases X's suggested share of the budget
\* to other loads nor changes any other load's hold counter or output.
C31_OtherLoadsUnaffected ==
    /\ Without(call.final[1], ThresholdLoad) = Without(call.final[2], ThresholdLoad)
    /\ call.suggested[1] = call.suggested[2]
    /\ Without(state[1], ThresholdLoad) = Without(state[2], ThresholdLoad)
    /\ Without(force_grid_until_step[1], ThresholdLoad)
           = Without(force_grid_until_step[2], ThresholdLoad)

\* C31's case: X is on SOLAR in the first run and forced to GRID in the
\* second, and another load, which would fit the budget without X, is on
\* GRID in both.
C31_Witness ==
    /\ call.kind = "decide"
    /\ ThresholdLoad \in DOMAIN call.final[1]
    /\ call.final[1][ThresholdLoad] = "SOLAR"
    /\ call.final[2][ThresholdLoad] = "GRID"
    /\ ForcedNow(force_grid_until_step[2], ThresholdLoad, step_index[2])
    /\ \E i \in 1..Len(call.loads[1]) :
        /\ call.loads[1][i].name # ThresholdLoad
        /\ call.loads[1][i].can_run_on_solar
        /\ FitsSolar(call.loads[1][i], PvRemaining100(call.pv, cfg.solar_margin),
                     cfg.high_power_solar_factor, cfg.high_power_min_kw)
        /\ call.final[1][call.loads[1][i].name] = "GRID"
        /\ call.final[2][call.loads[1][i].name] = "GRID"
        /\ call.suggested[2][call.loads[1][i].name] = "GRID"

====
